---- MODULE Spec2Model ----
(***************************************************************************)
(* Hubly support-chat backend: staff users, leads (tickets), conversation  *)
(* turns and chatbot settings kept in a document store, and the Express    *)
(* handlers that read and write them.  Every handler is a chain of awaited *)
(* database operations; each awaited operation is one atomic step, and the *)
(* steps of different requests interleave freely.                          *)
(***************************************************************************)
EXTENDS Integers, Sequences, FiniteSets, TLC

(* ------------------------------ bounds --------------------------------- *)
MaxUsers == 2
MaxLeads == 3
\* The highest suffix of a ticket code in a store drawn for the ticket sequencer.
CodeLeads == 11
\* Leads in the engine specification.
EngineLeads == 1
\* Leads in the sweep specification.
SweepLeads == 2
MaxConvs == 3
\* Leads in a store drawn for the listing, and the longest assigneeList drawn.
ListLeads == 2
ListLen == 2
\* Leads in a store drawn for the analytics, and the largest responseTime drawn.
AnalyticsLeads == 3
MaxResponseTime == 3
\* Leads in a store drawn for the weekly graph.
WeekLeads == 3
MaxNow == 2000
MaxDay == 1
\* Half hours the clock advances in the specification of the one-hour threshold.
MaxHalfHours == 4
\* Lifetimes of an access token that the clock passes in the specification of the
\* credentials.
MaxAuthTicks == 1
\* Pairs of cookies handed out by logins and still held by clients.
MaxJars == 3
\* Day number (days since 1970-01-01) on which the server boots: 2025-09-30.
BootDay == 20361

\* Two requests in flight at a time.
Procs == {"p1", "p2"}

\* Request inputs.
Emails == {"a@x", "b@x"}
Roles == {"Admin", "Member"}
Statuses == {"Resolved", "Unresolved"}
Messages == {"hello"}
\* Contact details of a form, as sequences of characters: absent, padded with blanks,
\* and plain.
Names == {<<>>, <<" ", "A", " ">>, <<"B">>}
Phones == {<<"1">>, <<"2", " ">>}
Forms == [name : Names, email : {<<"a", "@", "x">>}, phone : Phones]
PlainForm == [name |-> <<"B">>, email |-> <<"a", "@", "x">>, phone |-> <<"1">>]
NoForm == [name |-> <<>>, email |-> <<>>, phone |-> <<>>]
\* The message of a createLead request, absent or present.
NewLeadMessages == {"", "hello"}
Timers == {[hour |-> 0, minute |-> 0, second |-> 0],
           [hour |-> 0, minute |-> 0, second |-> 1]}
\* Milliseconds in a second.
SecondMs == 1000
TickSteps == {500, SecondMs}


(* ------------------------------ helpers -------------------------------- *)
Range(s) == {s[i] : i \in 1..Len(s)}

Min(S) == CHOOSE x \in S : \A y \in S : x <= y

\* JavaScript Math.floor(a / b) for a >= 0, b > 0.
Floor(a, b) == a \div b

DayMs == 1000 * 60 * 60 * 24

HalfHourMs == 30 * 60 * SecondMs

\* A Date: the day it falls on, counted from the day the server booted, and the
\* milliseconds into that day.  DateOf(t) is the Date of the instant t milliseconds after
\* the boot day's midnight, and GetTime its inverse (date.getTime(), from that midnight).
DateOf(t) == [day |-> t \div DayMs, ms |-> t % DayMs]

GetTime(date) == date.day * DayMs + date.ms

(* ------------------------------- state --------------------------------- *)
\* bcrypt.hash(password, Number(SALT)): the stored form of a password.
bcryptHash(password) == "$2b$" \o password

\* No user document.
NoMember == [id |-> 0, email |-> "", contact |-> <<>>]

VARIABLES users, nextUserId, leads, convs, settings, now, pc, loc, cookies

vars == <<users, nextUserId, leads, convs, settings, now, pc, loc, cookies>>

\* The locals of a request handler between two awaited operations.
\* A JSON web token: the secret it is signed with (its type), the id in its payload, and
\* the seconds at which it was issued and at which it expires.  NoToken is an absent
\* cookie, or the null stored once a refresh_token is removed.
NoToken == [type |-> "none", id |-> 0, iat |-> 0, exp |-> 0]

Idle == [foundUser |-> 0, foundAdmin |-> 0, email |-> "", role |-> "",
         memberID |-> 0, leadID |-> 0, baseTicketID |-> "", ticketID |-> "",
         count |-> 0, responseTimeInMs |-> 0, modResponseTime |-> -1,
         modIsMissedChat |-> FALSE, modStatus |-> "", thresholdTime |-> 0,
         status |-> "", message |-> "", error |-> "", retry |-> FALSE,
         result |-> <<>>, form |-> NoForm,
         totalLeadCount |-> 0, resolvedLeadCount |-> 0, totalResolvedLeads |-> 0,
         averateResponseTime |-> 0, leadGraph |-> <<>>,
         route |-> "", access_token |-> NoToken, refresh_token |-> NoToken, user |-> 0,
         isValidPassword |-> FALSE, foundMember |-> NoMember, phone |-> <<>>,
         password |-> "", completions |-> 0]

\* Ids carried by issued bearer credentials: every user ever created.
Tokens == 1..(nextUserId - 1)

UserIds == {u.id : u \in users}

UserById(id) == CHOOSE u \in users : u.id = id

\* User.findOne({ userRole: 'Admin' }): the first Admin in insertion order, 0 when none.
FindAdmin == IF \E u \in users : u.userRole = "Admin"
             THEN Min({u.id : u \in {v \in users : v.userRole = "Admin"}})
             ELSE 0

\* User.findById(id): the id when the document exists, 0 (null) otherwise.
FindUserById(id) == IF id \in UserIds THEN id ELSE 0

\* loadDefaultSettings: the document new ChatbotSettings({...}) holds (the welcome
\* message without its leading emoji).
loadDefaultSettings ==
    [headerColor |-> "#33475B",
     backgroundColor |-> "#EEEEEE",
     customizedMessages |-> <<"How can i help you?", "Ask me anything!">>,
     formPlaceholder |-> [name |-> "Your name", phone |-> "+1 (000) 000-0000",
                          email |-> "example@gmail.com", submitButton |-> "Thank You!"],
     welcomeMessage |-> "Want to chat about Hubly? I'm a chatbot here to help you find your way.",
     missedChatTimer |-> [hour |-> 1, minute |-> 0, second |-> 0]]

Init ==
    /\ users = {}
    /\ nextUserId = 1
    /\ leads = <<>>
    /\ convs = <<>>
    /\ settings = <<loadDefaultSettings>>
    /\ now = 0
    /\ pc = [p \in Procs |-> "idle"]
    /\ loc = [p \in Procs |-> Idle]
    /\ cookies = {}

Goto(p, label, locals) ==
    /\ pc' = [pc EXCEPT ![p] = label]
    /\ loc' = [loc EXCEPT ![p] = locals]

Finish(p) == Goto(p, "idle", Idle)

\* return next(new CustomError(message, statusCode)), or next(error) from a catch: the
\* request is handed to the error middleware with the error it carries.  completions
\* counts the calls of next and the responses sent by the request's current stage.
Fail(p, locals, error) ==
    Goto(p, "error", [locals EXCEPT !.error = error, !.completions = @ + 1])

\* app.use(errorMiddleware): the error response is sent and the request ends.
errorMiddleware(p) ==
    /\ pc[p] = "error"
    /\ Finish(p)
    /\ UNCHANGED <<users, nextUserId, leads, convs, settings, now, cookies>>

InFlight(labels) == Cardinality({q \in Procs : pc[q] \in labels})

(* ------------------------------- clock --------------------------------- *)
\* Time passes: new Date() and Date.now() read d more milliseconds.
Advance(d, limit) ==
    /\ (now % DayMs) + d <= limit
    /\ now' = now + d
    /\ UNCHANGED <<users, nextUserId, leads, convs, settings, pc, loc, cookies>>

Tick(d) == Advance(d, MaxNow)

TickHalfHour == Advance(HalfHourMs, MaxHalfHours * HalfHourMs)

\* The clock advancing past the default threshold of one hour in one step.
TickPastHour == Advance(MaxHalfHours * HalfHourMs, MaxHalfHours * HalfHourMs)

Midnight ==
    /\ now \div DayMs < MaxDay
    /\ now' = ((now \div DayMs) + 1) * DayMs
    /\ UNCHANGED <<users, nextUserId, leads, convs, settings, pc, loc, cookies>>

(* ------------------------- controller/auth.js -------------------------- *)
UserCreateLabels == {"reg_admin", "reg_save", "mem_admin", "mem_save"}

\* postRegister: await User.findOne({ email })
postRegister_findEmail(p, email) ==
    /\ pc[p] = "idle"
    /\ (nextUserId - 1) + InFlight(UserCreateLabels) < MaxUsers
    /\ ~ \E u \in users : u.email = email
    /\ Goto(p, "reg_admin", [Idle EXCEPT !.email = email])
    /\ UNCHANGED <<users, nextUserId, leads, convs, settings, now, cookies>>

RegisterRole(foundAdmin) == IF foundAdmin # 0 THEN "Member" ELSE "Admin"

\* postRegister: await User.findOne({ userRole: 'Admin' })
postRegister_findAdmin(p) ==
    /\ pc[p] = "reg_admin"
    /\ Goto(p, "reg_save", [loc[p] EXCEPT !.foundAdmin = FindAdmin,
                                          !.role = RegisterRole(FindAdmin)])
    /\ UNCHANGED <<users, nextUserId, leads, convs, settings, now, cookies>>

\* newUser.save(): the unique index on email rejects a duplicate.
SaveUser(p) ==
    IF \E u \in users : u.email = loc[p].email
    THEN UNCHANGED <<users, nextUserId>>
    ELSE /\ users' = users \cup {[id |-> nextUserId, email |-> loc[p].email,
                                  userRole |-> loc[p].role, parent |-> loc[p].foundAdmin,
                                  refresh_token |-> NoToken, contact |-> <<>>,
                                  password |-> bcryptHash("User@1234")]}
         /\ nextUserId' = nextUserId + 1

postRegister_save(p) ==
    /\ pc[p] = "reg_save"
    /\ SaveUser(p)
    /\ Finish(p)
    /\ UNCHANGED <<leads, convs, settings, now, cookies>>

\* postMember: await User.findOne({ email })
postMember_findEmail(p, email, designation) ==
    /\ pc[p] = "idle"
    /\ Tokens # {}
    /\ (nextUserId - 1) + InFlight(UserCreateLabels) < MaxUsers
    /\ ~ \E u \in users : u.email = email
    /\ Goto(p, "mem_admin", [Idle EXCEPT !.email = email, !.role = designation])
    /\ UNCHANGED <<users, nextUserId, leads, convs, settings, now, cookies>>

\* postMember: await User.findOne({ userRole: 'Admin' })
postMember_findAdmin(p) ==
    /\ pc[p] = "mem_admin"
    /\ IF FindAdmin = 0
       THEN Finish(p)
       ELSE Goto(p, "mem_save", [loc[p] EXCEPT !.foundAdmin = FindAdmin])
    /\ UNCHANGED <<users, nextUserId, leads, convs, settings, now, cookies>>

postMember_save(p) ==
    /\ pc[p] = "mem_save"
    /\ SaveUser(p)
    /\ Finish(p)
    /\ UNCHANGED <<leads, convs, settings, now, cookies>>


\* $pull: { assigneeList: x } and $addToSet: { assigneeList: x }
Pull(list, x) == SelectSeq(list, LAMBDA e : e # x)

AddToSet(list, x) == IF x \in Range(list) THEN list ELSE Append(list, x)

\* deleteMember: the checks on validatUser; "" when all pass.
deleteMember_error(uid, memberID) ==
    IF FindUserById(memberID) = 0 THEN "NOT_FOUND"
    ELSE IF UserById(memberID).userRole = "Admin" THEN "UNAUTHORIZED"
    ELSE IF UserById(memberID).parent # uid THEN "UNAUTHORIZED"
    ELSE ""

\* Mutant of deleteMember_findById: the check of validatUser.userRole is left out.
deleteMember_findByIdAnyRole(p, uid, memberID) ==
    /\ pc[p] = "idle"
    /\ uid \in Tokens
    /\ IF FindUserById(memberID) = 0 \/ UserById(memberID).parent # uid
       THEN Fail(p, [Idle EXCEPT !.memberID = memberID], "UNAUTHORIZED")
       ELSE Goto(p, "del_admin", [Idle EXCEPT !.memberID = memberID,
                                              !.role = UserById(memberID).userRole])
    /\ UNCHANGED <<users, nextUserId, leads, convs, settings, now, cookies>>

\* deleteMember: await User.findById(memberID), then the role and parent checks; past
\* them validatUser.deleteOne() enters the hook with the document found.
deleteMember_findById(p, uid, memberID) ==
    /\ pc[p] = "idle"
    /\ uid \in Tokens
    /\ IF deleteMember_error(uid, memberID) # ""
       THEN Fail(p, [Idle EXCEPT !.memberID = memberID], deleteMember_error(uid, memberID))
       ELSE Goto(p, "del_admin", [Idle EXCEPT !.memberID = memberID,
                                              !.role = UserById(memberID).userRole])
    /\ UNCHANGED <<users, nextUserId, leads, convs, settings, now, cookies>>

\* userSchema.pre('deleteOne'): if (member.userRole !== 'Member') return next(); else
\* await User.findOne({ userRole: 'Admin' }), and next(new Error(...)) when none is found.
preDeleteOne_findAdmin(p) ==
    /\ pc[p] = "del_admin"
    /\ IF loc[p].role # "Member"
       THEN Goto(p, "del_remove", loc[p])
       ELSE IF FindAdmin = 0
            THEN Fail(p, loc[p], "Error")
            ELSE Goto(p, "del_current", [loc[p] EXCEPT !.foundAdmin = FindAdmin])
    /\ UNCHANGED <<users, nextUserId, leads, convs, settings, now, cookies>>

ReassignCurrent(lead, member, admin) ==
    IF ~lead.deleted /\ lead.currentAssignee = member
    THEN [lead EXCEPT !.currentAssignee = admin]
    ELSE lead

\* Lead.updateMany({ currentAssignee: member }, { currentAssignee: admin })
preDeleteOne_updateCurrent(p) ==
    /\ pc[p] = "del_current"
    /\ leads' = [i \in 1..Len(leads) |->
                    ReassignCurrent(leads[i], loc[p].memberID, loc[p].foundAdmin)]
    /\ Goto(p, "del_list", loc[p])
    /\ UNCHANGED <<users, nextUserId, convs, settings, now, cookies>>

ReassignList(lead, member, admin) ==
    IF ~lead.deleted /\ member \in Range(lead.assigneeList)
    THEN [lead EXCEPT !.assigneeList = AddToSet(Pull(lead.assigneeList, member), admin)]
    ELSE lead

\* Lead.updateMany({ assigneeList: member }, { $pull: member, $addToSet: admin })
preDeleteOne_updateList(p) ==
    /\ pc[p] = "del_list"
    /\ leads' = [i \in 1..Len(leads) |->
                    ReassignList(leads[i], loc[p].memberID, loc[p].foundAdmin)]
    /\ Goto(p, "del_conv", loc[p])
    /\ UNCHANGED <<users, nextUserId, convs, settings, now, cookies>>

ReassignTurn(turn, member, admin) ==
    IF ~turn.deleted /\ turn.assigneeID = member
    THEN [turn EXCEPT !.assigneeID = admin]
    ELSE turn

\* LeadConversation.updateMany({ assigneeID: member }, { assigneeID: admin })
preDeleteOne_updateConversation(p) ==
    /\ pc[p] = "del_conv"
    /\ convs' = [i \in 1..Len(convs) |->
                    ReassignTurn(convs[i], loc[p].memberID, loc[p].foundAdmin)]
    /\ Goto(p, "del_remove", loc[p])
    /\ UNCHANGED <<users, nextUserId, leads, settings, now, cookies>>

\* The deleteOne itself, once the hook has called next().
deleteMember_deleteOne(p) ==
    /\ pc[p] = "del_remove"
    /\ users' = {u \in users : u.id # loc[p].memberID}
    /\ Finish(p)
    /\ UNCHANGED <<nextUserId, leads, convs, settings, now, cookies>>

(* ----------------- util/jwtToken.js, middleware (isAuth) ---------------- *)
\* Lifetimes in seconds: '2h' and '7d' at login, '1h' for a renewed access token.
AccessTime == 2 * 60 * 60
RefreshTime == 7 * 24 * 60 * 60
RenewedAccessTime == 60 * 60

\* jwt.sign({ id: user._id }, secret, { expiresIn: time }): the token is a function of the
\* id, the secret and the second of issue.
generateJWTToken(user, type, time) ==
    [type |-> type, id |-> user, iat |-> now \div SecondMs, exp |-> (now \div SecondMs) + time]

\* jwt.verify(token, secret): the name of the error, "" when the token is decoded.  The
\* signature is checked before the expiry.
JwtVerify(token, type) ==
    IF token.type # type THEN "JsonWebTokenError"
    ELSE IF now \div SecondMs >= token.exp THEN "TokenExpiredError"
    ELSE ""

\* User.findOne({ refresh_token: refreshToken }): the first match, 0 (null) when none.
FindByRefreshToken(refreshToken) ==
    IF \E u \in users : u.refresh_token = refreshToken
    THEN Min({u.id : u \in {v \in users : v.refresh_token = refreshToken}})
    ELSE 0

\* The cookies a client sends: a pair it was handed, or none.
CookieJars == cookies \cup {[access_token |-> NoToken, refresh_token |-> NoToken]}

\* The routes behind isAuth that the credentials are checked on.
Routes == {"logout", "analytics"}

\* isAuth: if (!accessToken) next(...LOGOUT_REQESTED...) with no return, then
\* jwt.verify(accessToken, ACCESS_TOKEN_SECRET, ...); a decoded token goes on to
\* the route, an expired one to handleTokenRefresh up to its await, any other error ends
\* the request.
isAuth(p, route, jar) ==
    /\ pc[p] = "idle"
    /\ LET locals == [Idle EXCEPT !.route = route,
                                  !.access_token = jar.access_token,
                                  !.refresh_token = jar.refresh_token,
                                  !.completions = IF jar.access_token = NoToken
                                                  THEN 1 ELSE 0]
           err == JwtVerify(jar.access_token, "access")
       IN IF err = "" THEN Goto(p, "route", [locals EXCEPT !.user = jar.access_token.id])
          ELSE IF err # "TokenExpiredError" THEN Fail(p, locals, "LOGOUT_REQESTED")
          ELSE IF jar.refresh_token = NoToken THEN Fail(p, locals, "440")
          ELSE Goto(p, "auth_refresh", locals)
    /\ UNCHANGED <<users, nextUserId, leads, convs, settings, now, cookies>>

\* Mutant of handleTokenRefresh_error: the refresh token is verified but not looked up.
handleTokenRefresh_errorNoLookup(refreshToken) ==
    IF JwtVerify(refreshToken, "refresh") # "" THEN "440" ELSE ""

\* handleTokenRefresh: the status it ends with, "" when the request goes on: 440 when no
\* user stores the refresh token, and when jwt.verify rejects it.
handleTokenRefresh_error(refreshToken) ==
    IF FindByRefreshToken(refreshToken) = 0 THEN "440"
    ELSE IF JwtVerify(refreshToken, "refresh") # "" THEN "440"
    ELSE ""

\* handleTokenRefresh: await User.findOne({ refresh_token }), jwt.verify, the new
\* access_token cookie (it overwrites the expired one the client sent), req.user = decoded
\* and next().
handleTokenRefresh_findOne(p) ==
    /\ pc[p] = "auth_refresh"
    /\ LET refreshToken == loc[p].refresh_token
           error == handleTokenRefresh_error(refreshToken)
           newAccessToken ==
               generateJWTToken(FindByRefreshToken(refreshToken), "access", RenewedAccessTime)
       IN IF error # ""
          THEN /\ Fail(p, loc[p], error)
               /\ UNCHANGED cookies
          ELSE /\ Goto(p, "route", [loc[p] EXCEPT !.user = refreshToken.id,
                                                 !.access_token = newAccessToken])
               /\ cookies' = (cookies \ {[access_token |-> loc[p].access_token,
                                           refresh_token |-> refreshToken]})
                                 \cup {[access_token |-> newAccessToken,
                                        refresh_token |-> refreshToken]}
    /\ UNCHANGED <<users, nextUserId, leads, convs, settings, now>>

\* postLogin: await User.findOne({ email })
postLogin_findOne(p, email, isValidPassword) ==
    /\ pc[p] = "idle"
    /\ Cardinality(cookies) + InFlight({"login_compare", "login_save"}) < MaxJars
    /\ IF \E u \in users : u.email = email
       THEN Goto(p, "login_compare",
                 [Idle EXCEPT !.foundUser = (CHOOSE u \in users : u.email = email).id,
                              !.isValidPassword = isValidPassword])
       ELSE Fail(p, Idle, "CONFLICT")
    /\ UNCHANGED <<users, nextUserId, leads, convs, settings, now, cookies>>

\* postLogin: await bcrypt.compare(password, foundUser.password), then the two tokens.
postLogin_compare(p) ==
    /\ pc[p] = "login_compare"
    /\ IF loc[p].isValidPassword
       THEN Goto(p, "login_save",
                 [loc[p] EXCEPT
                     !.access_token = generateJWTToken(loc[p].foundUser, "access", AccessTime),
                     !.refresh_token =
                         generateJWTToken(loc[p].foundUser, "refresh", RefreshTime)])
       ELSE Fail(p, loc[p], "CONFLICT")
    /\ UNCHANGED <<users, nextUserId, leads, convs, settings, now, cookies>>

\* foundUser.refresh_token = value; await foundUser.save()
SetRefreshToken(id, value) ==
    {IF u.id = id THEN [u EXCEPT !.refresh_token = value] ELSE u : u \in users}

\* postLogin: foundUser.refresh_token = refreshToken; await foundUser.save(); the two
\* cookies go to the client.
postLogin_save(p) ==
    /\ pc[p] = "login_save"
    /\ IF loc[p].foundUser \in UserIds
       THEN /\ users' = SetRefreshToken(loc[p].foundUser, loc[p].refresh_token)
            /\ cookies' = cookies \cup {[access_token |-> loc[p].access_token,
                                          refresh_token |-> loc[p].refresh_token]}
            /\ Finish(p)
       ELSE /\ UNCHANGED <<users, cookies>>
            /\ Fail(p, loc[p], "DocumentNotFoundError")
    /\ UNCHANGED <<nextUserId, leads, convs, settings, now>>

\* getLogout: req.cookies.refresh_token, await User.findOne({ refresh_token })
getLogout_findOne(p) ==
    /\ pc[p] = "route"
    /\ loc[p].route = "logout"
    /\ IF loc[p].refresh_token = NoToken \/ FindByRefreshToken(loc[p].refresh_token) = 0
       THEN Fail(p, loc[p], "BAD_REQUEST")
       ELSE Goto(p, "logout_save",
                 [loc[p] EXCEPT !.foundUser = FindByRefreshToken(loc[p].refresh_token)])
    /\ UNCHANGED <<users, nextUserId, leads, convs, settings, now, cookies>>

\* getLogout: foundUser.refresh_token = null; await foundUser.save()
getLogout_save(p) ==
    /\ pc[p] = "logout_save"
    /\ IF loc[p].foundUser \in UserIds
       THEN /\ users' = SetRefreshToken(loc[p].foundUser, NoToken)
            /\ Finish(p)
       ELSE /\ UNCHANGED users
            /\ Fail(p, loc[p], "DocumentNotFoundError")
    /\ UNCHANGED <<nextUserId, leads, convs, settings, now, cookies>>

(* --------------------------- controller/lead.js ------------------------ *)
\* new Date().getFullYear(), getMonth() + 1, getDate() of the day number z
\* (days since 1970-01-01).
CivilFromDays(z) ==
    LET zz == z + 719468
        era == zz \div 146097
        doe == zz - era * 146097
        yoe == (doe - doe \div 1460 + doe \div 36524 - doe \div 146096) \div 365
        doy == doe - (365 * yoe + yoe \div 4 - yoe \div 100)
        mp == (5 * doy + 2) \div 153
        d == doy - (153 * mp + 2) \div 5 + 1
        m == IF mp < 10 THEN mp + 3 ELSE mp - 9
        y == yoe + era * 400 + (IF m <= 2 THEN 1 ELSE 0)
    IN [fullYear |-> y, month |-> m, day |-> d]

Today == CivilFromDays(BootDay + now \div DayMs)

\* `${n > 9 ? n : '0' + n}`
Pad2(n) == IF n > 9 THEN ToString(n) ELSE "0" \o ToString(n)

\* getTicketID: baseTicketID of the current date.
BaseTicketID(date) == ToString(date.fullYear) \o "-" \o Pad2(date.month) \o Pad2(date.day)

\* Mutant of SuffixedTicketID: the suffix is not padded.
SuffixedTicketIDUnpadded(base, count) == base \o "-" \o ToString(count)

\* getTicketID: `${baseTicketID}-${suffix}`
SuffixedTicketID(base, count) == base \o "-" \o Pad2(count)

\* The k-th ticket code of the day, as getTicketID hands them out.
TicketOfDay(k) ==
    IF k = 1 THEN BaseTicketID(Today) ELSE SuffixedTicketID(BaseTicketID(Today), k - 1)

\* The documents of a collection keep their position (their _id) for good; a deleted
\* document stays behind as a record with deleted = TRUE that no query matches.
LeadStored(leadID) == leadID \in 1..Len(leads) /\ ~leads[leadID].deleted

\* Lead.findOne({ ticketID }): a document is found.
FindLeadByTicket(ticketID) ==
    \E i \in 1..Len(leads) : ~leads[i].deleted /\ leads[i].ticketID = ticketID

\* new LeadConversation({...}) with the schema defaults.
NewConversation(leadID, message, sendBy, assigneeID) ==
    [leadID |-> leadID, message |-> message, sendBy |-> sendBy, assigneeID |-> assigneeID,
     deleted |-> FALSE]

LeadCreateLabels == {"lead_probe", "lead_save"}
ConvCreateLabels == {"lead_probe", "lead_save", "lead_conv", "aborted", "vmsg_conv",
                     "msg_lead", "msg_settings", "msg_save", "msg_conv"}

\* Mutant of postNewLead_findAdmin: the test of message is left out.
postNewLead_findAdminAnyMessage(p, message) ==
    /\ pc[p] = "idle"
    /\ Len(leads) + InFlight(LeadCreateLabels) < MaxLeads
    /\ Len(convs) + InFlight(ConvCreateLabels) < MaxConvs
    /\ IF FindAdmin = 0
       THEN Fail(p, [Idle EXCEPT !.message = message], "NO_ADMIN_FOUND")
       ELSE Goto(p, "lead_probe", [Idle EXCEPT !.foundAdmin = FindAdmin,
                                                !.message = message,
                                                !.baseTicketID = BaseTicketID(Today),
                                                !.ticketID = BaseTicketID(Today),
                                                !.count = 1])
    /\ UNCHANGED <<users, nextUserId, leads, convs, settings, now, cookies>>

\* postNewLead: if (!message) return next("Invalid details shared!", BAD_REQUEST); await
\* User.findOne({ userRole: 'Admin' }); if (!foundAdmin) return next("No Admin found,
\* Contact support!", UNAUTHORIZED); getTicketID reads the date.  The request starts
\* while fewer than limit leads are stored or on their way.
postNewLead_start(p, message, limit) ==
    /\ pc[p] = "idle"
    /\ Len(leads) + InFlight(LeadCreateLabels) < limit
    /\ Len(convs) + InFlight(ConvCreateLabels) < MaxConvs
    /\ IF message = ""
       THEN Fail(p, [Idle EXCEPT !.message = message], "BAD_REQUEST")
       ELSE IF FindAdmin = 0
            THEN Fail(p, [Idle EXCEPT !.message = message], "NO_ADMIN_FOUND")
            ELSE Goto(p, "lead_probe", [Idle EXCEPT !.foundAdmin = FindAdmin,
                                                     !.message = message,
                                                     !.baseTicketID = BaseTicketID(Today),
                                                     !.ticketID = BaseTicketID(Today),
                                                     !.count = 1])
    /\ UNCHANGED <<users, nextUserId, leads, convs, settings, now, cookies>>

postNewLead_findAdmin(p, message) == postNewLead_start(p, message, MaxLeads)

\* Mutant of getTicketID_findOne: `if (foundLead)` in place of `while (foundLead)`, the
\* first suffixed code is returned without looking at the probe's answer.
getTicketID_findOnce(p) ==
    /\ pc[p] = "lead_probe"
    /\ LET first == loc[p].ticketID = loc[p].baseTicketID
           count == IF first THEN loc[p].count ELSE loc[p].count + 1
       IN IF first /\ FindLeadByTicket(loc[p].ticketID)
          THEN Goto(p, "lead_probe",
                    [loc[p] EXCEPT !.count = count,
                                   !.ticketID = SuffixedTicketID(loc[p].baseTicketID, count)])
          ELSE Goto(p, "lead_save", [loc[p] EXCEPT !.count = count])
    /\ UNCHANGED <<users, nextUserId, leads, convs, settings, now, cookies>>

\* Mutant of getTicketID_findOne: the loop probes the code it has just found again.
getTicketID_findOneSameCode(p) ==
    /\ pc[p] = "lead_probe"
    /\ IF FindLeadByTicket(loc[p].ticketID)
       THEN Goto(p, "lead_probe", loc[p])
       ELSE Goto(p, "lead_save", loc[p])
    /\ UNCHANGED <<users, nextUserId, leads, convs, settings, now, cookies>>

\* getTicketID: foundLead = await Lead.findOne({ ticketID }), before the loop (ticketID
\* is the base code) and inside it (count++ follows the probe); while (foundLead) goes on
\* with the next suffix.
getTicketID_findOne(p) ==
    /\ pc[p] = "lead_probe"
    /\ LET first == loc[p].ticketID = loc[p].baseTicketID
           count == IF first THEN loc[p].count ELSE loc[p].count + 1
       IN IF FindLeadByTicket(loc[p].ticketID)
          THEN Goto(p, "lead_probe",
                    [loc[p] EXCEPT !.count = count,
                                   !.ticketID = SuffixedTicketID(loc[p].baseTicketID, count)])
          ELSE Goto(p, "lead_save", [loc[p] EXCEPT !.count = count])
    /\ UNCHANGED <<users, nextUserId, leads, convs, settings, now, cookies>>

\* Mutant of NewLead: assigneeList left to its schema default, the empty list.
NewLeadNoList(ticketID, admin, createdAt) ==
    [ticketID |-> ticketID, currentAssignee |-> admin, assigneeList |-> <<>>,
     isFirstMessageShared |-> TRUE, isDetailsShared |-> FALSE, status |-> "Unresolved",
     responseTime |-> 0, isMissedChat |-> FALSE, createdAt |-> createdAt,
     userName |-> <<>>, userEmail |-> <<>>, userPhone |-> <<>>, deleted |-> FALSE]

\* Mutant of NewLead: isFirstMessageShared left to its schema default, false.
NewLeadNoFirstMessage(ticketID, admin, createdAt) ==
    [ticketID |-> ticketID, currentAssignee |-> admin, assigneeList |-> <<admin>>,
     isFirstMessageShared |-> FALSE, isDetailsShared |-> FALSE, status |-> "Unresolved",
     responseTime |-> 0, isMissedChat |-> FALSE, createdAt |-> createdAt,
     userName |-> <<>>, userEmail |-> <<>>, userPhone |-> <<>>, deleted |-> FALSE]

\* new Lead({...}) with the schema defaults.
NewLead(ticketID, admin, createdAt) ==
    [ticketID |-> ticketID, currentAssignee |-> admin, assigneeList |-> <<admin>>,
     isFirstMessageShared |-> TRUE, isDetailsShared |-> FALSE, status |-> "Unresolved",
     responseTime |-> 0, isMissedChat |-> FALSE, createdAt |-> createdAt,
     userName |-> <<>>, userEmail |-> <<>>, userPhone |-> <<>>, deleted |-> FALSE]

\* postNewLead: await newLead.save()
postNewLead_save(p) ==
    /\ pc[p] = "lead_save"
    /\ leads' = Append(leads, NewLead(loc[p].ticketID, loc[p].foundAdmin, DateOf(now)))
    /\ Goto(p, "lead_conv", [loc[p] EXCEPT !.leadID = Len(leads) + 1])
    /\ UNCHANGED <<users, nextUserId, convs, settings, now, cookies>>

\* postNewLead: await newConversation.save()
postNewLead_saveConversation(p) ==
    /\ pc[p] = "lead_conv"
    /\ convs' = Append(convs, NewConversation(loc[p].leadID, loc[p].message, "Lead", 0))
    /\ Finish(p)
    /\ UNCHANGED <<users, nextUserId, leads, settings, now, cookies>>

\* String.prototype.trim(): the string without its leading and trailing white space.
RECURSIVE TrimStart(_)
TrimStart(str) ==
    IF str # <<>> /\ Head(str) = " " THEN TrimStart(Tail(str)) ELSE str

RECURSIVE TrimEnd(_)
TrimEnd(str) ==
    IF str # <<>> /\ str[Len(str)] = " " THEN TrimEnd(SubSeq(str, 1, Len(str) - 1)) ELSE str

Trim(str) == TrimEnd(TrimStart(str))

\* postLeadForm: if (!leadID || !name || !email || !phone) return next(BAD_REQUEST)
postLeadForm_invalid(form) == form.name = <<>> \/ form.email = <<>> \/ form.phone = <<>>

\* postLeadForm: the field check, then await Lead.findById(leadID)
postLeadForm_findById(p, leadID, form) ==
    /\ pc[p] = "idle"
    /\ IF postLeadForm_invalid(form)
       THEN Fail(p, [Idle EXCEPT !.leadID = leadID, !.form = form], "BAD_REQUEST")
       ELSE IF ~LeadStored(leadID)
            THEN Fail(p, [Idle EXCEPT !.leadID = leadID, !.form = form], "NOT_FOUND")
            ELSE Goto(p, "form_save", [Idle EXCEPT !.leadID = leadID, !.form = form])
    /\ UNCHANGED <<users, nextUserId, leads, convs, settings, now, cookies>>

\* Mutant of SubmitForm: the values are stored as they came, untrimmed.
SubmitFormUntrimmed(lead, form) ==
    [lead EXCEPT !.userName = form.name,
                 !.userEmail = form.email,
                 !.userPhone = form.phone,
                 !.isDetailsShared = TRUE]

\* postLeadForm: userName = name.trim(), userEmail = email.trim(), userPhone =
\* phone.trim(), isDetailsShared = true; save() writes these paths.
SubmitForm(lead, form) ==
    [lead EXCEPT !.userName = Trim(form.name),
                 !.userEmail = Trim(form.email),
                 !.userPhone = Trim(form.phone),
                 !.isDetailsShared = TRUE]

\* postLeadForm: await foundLead.save()
postLeadForm_save(p) ==
    /\ pc[p] = "form_save"
    /\ IF LeadStored(loc[p].leadID)
       THEN /\ leads' = [leads EXCEPT ![loc[p].leadID] = SubmitForm(@, loc[p].form)]
            /\ Finish(p)
       ELSE /\ UNCHANGED leads
            /\ Fail(p, loc[p], "DocumentNotFoundError")
    /\ UNCHANGED <<users, nextUserId, convs, settings, now, cookies>>

\* putLeadMessage: await Lead.findById(leadID)
putLeadMessage_findById(p, leadID, message) ==
    /\ pc[p] = "idle"
    /\ Len(convs) + InFlight(ConvCreateLabels) < MaxConvs
    /\ IF LeadStored(leadID)
       THEN Goto(p, "vmsg_conv", [Idle EXCEPT !.leadID = leadID, !.message = message])
       ELSE Fail(p, [Idle EXCEPT !.leadID = leadID, !.message = message], "NOT_FOUND")
    /\ UNCHANGED <<users, nextUserId, leads, convs, settings, now, cookies>>

\* Mutant of putLeadMessage_saveConversation: the turn is saved with sendBy 'Member'.
putLeadMessage_saveConversationAsMember(p) ==
    /\ pc[p] = "vmsg_conv"
    /\ convs' = Append(convs, NewConversation(loc[p].leadID, loc[p].message, "Member", 0))
    /\ Finish(p)
    /\ UNCHANGED <<users, nextUserId, leads, settings, now, cookies>>

\* putLeadMessage: await newConversation.save()
putLeadMessage_saveConversation(p) ==
    /\ pc[p] = "vmsg_conv"
    /\ convs' = Append(convs, NewConversation(loc[p].leadID, loc[p].message, "Lead", 0))
    /\ Finish(p)
    /\ UNCHANGED <<users, nextUserId, leads, settings, now, cookies>>

\* Mutant of DeleteConversations: deleteMany({}) without the leadID filter.
DeleteAllConversations(collection, leadID) ==
    [i \in 1..Len(collection) |-> [collection[i] EXCEPT !.deleted = TRUE]]

\* LeadConversation.deleteMany({ leadID: lead._id })
DeleteConversations(collection, leadID) ==
    [i \in 1..Len(collection) |->
        IF collection[i].leadID = leadID
        THEN [collection[i] EXCEPT !.deleted = TRUE]
        ELSE collection[i]]

\* lead.deleteOne() on a stored Lead document enters leadSchema.pre('deleteOne'):
\* await LeadConversation.deleteMany({ leadID: lead._id })
leadPreDeleteOne_deleteMany(p, leadID) ==
    /\ pc[p] = "idle"
    /\ LeadStored(leadID)
    /\ convs' = DeleteConversations(convs, leadID)
    /\ Goto(p, "ldel_remove", [Idle EXCEPT !.leadID = leadID])
    /\ UNCHANGED <<users, nextUserId, leads, settings, now, cookies>>

\* The deleteOne itself, once the hook has called next().
lead_deleteOne(p) ==
    /\ pc[p] = "ldel_remove"
    /\ leads' = [leads EXCEPT ![loc[p].leadID].deleted = TRUE]
    /\ Finish(p)
    /\ UNCHANGED <<users, nextUserId, convs, settings, now, cookies>>

(* ---------------------- controller/lead.js: analytics ------------------ *)
\* Math.round(a / b) for a >= 0, b > 0: the nearest integer, a half rounded up.
RoundDiv(a, b) == (2 * a + b) \div (2 * b)

\* Lead.countDocuments() over a collection.
CountDocuments(collection) ==
    Cardinality({l \in 1..Len(collection) : ~collection[l].deleted})

\* Lead.countDocuments({ status: 'Resolved' }) over a collection.
CountResolved(collection) ==
    Cardinality({l \in 1..Len(collection) :
                    ~collection[l].deleted /\ collection[l].status = "Resolved"})

\* getLeadsAnalytics: const totalLeadCount = await Lead.countDocuments()
getLeadsAnalytics_countDocuments(p) ==
    /\ \/ pc[p] = "idle" /\ Tokens # {}
       \/ pc[p] = "route" /\ loc[p].route = "analytics"
    /\ Goto(p, "an_resolved", [Idle EXCEPT !.totalLeadCount = CountDocuments(leads)])
    /\ UNCHANGED <<users, nextUserId, leads, convs, settings, now, cookies>>

\* totalLeadCount === 0 ? 0 : Math.round((resolvedLeadCount / totalLeadCount) * 100)
ResolvedPercentage(resolvedLeadCount, totalLeadCount) ==
    IF totalLeadCount = 0 THEN 0 ELSE RoundDiv(resolvedLeadCount * 100, totalLeadCount)

\* getLeadsAnalytics: const resolvedLeadCount = await Lead.countDocuments({ status:
\* 'Resolved' }), then totalResolvedLeads.
getLeadsAnalytics_countResolved(p) ==
    /\ pc[p] = "an_resolved"
    /\ LET resolvedLeadCount == CountResolved(leads)
       IN Goto(p, "an_find",
               [loc[p] EXCEPT !.resolvedLeadCount = resolvedLeadCount,
                              !.totalResolvedLeads =
                                  ResolvedPercentage(resolvedLeadCount, loc[p].totalLeadCount)])
    /\ UNCHANGED <<users, nextUserId, leads, convs, settings, now, cookies>>

\* The responseTime values of the stored leads that take part in the average.
RECURSIVE ResponseData(_, _)
ResponseData(collection, acc) ==
    IF collection = <<>> THEN acc
    ELSE LET lead == Head(collection)
         IN ResponseData(Tail(collection),
                IF ~lead.deleted /\ lead.responseTime # 0
                THEN [sum |-> acc.sum + lead.responseTime, count |-> acc.count + 1]
                ELSE acc)

\* Mutant of AverageResponseTime: the sum is divided by the number of all leads.
AverageOverAllLeads(collection) ==
    LET responseData == ResponseData(collection, [sum |-> 0, count |-> 0])
        total == CountDocuments(collection)
    IN IF total > 0 THEN RoundDiv(responseData.sum, total) ELSE 0

\* totalLeads.reduce(...) over the leads with responseTime !== 0, and
\* Math.round(count > 0 ? sum / count : 0)
AverageResponseTime(collection) ==
    LET responseData == ResponseData(collection, [sum |-> 0, count |-> 0])
    IN IF responseData.count > 0
       THEN RoundDiv(responseData.sum, responseData.count)
       ELSE 0

\* Day number (days since 1970-01-01) of new Date(year, 0, 1), the server's clock being UTC.
StartOfYear(year) ==
    LET y == year - 1
        era == y \div 400
        yoe == y - era * 400
        doe == yoe * 365 + yoe \div 4 - yoe \div 100 + 306
    IN era * 146097 + doe - 719468

\* date.getFullYear()
GetFullYear(date) == CivilFromDays(BootDay + date.day).fullYear

\* start.getDay() of the day number z: 1970-01-01 was a Thursday.
GetDay(z) == (z + 4) % 7

\* getWeekNumber: Math.ceil((diff + start.getDay() + 1) / 7), diff being the days since
\* the first of January, a fraction of a day included.
getWeekNumber(date) ==
    LET start == StartOfYear(GetFullYear(date))
        days == (BootDay + date.day - start) + GetDay(start) + 1
    IN IF date.ms = 0 /\ days % 7 = 0 THEN days \div 7 ELSE days \div 7 + 1

\* Array(10).fill(0)
GraphWeeks == 10

\* Mutant of MissedChatsByWeek: the year of the lead is not compared.
RECURSIVE MissedChatsByWeekAnyYear(_, _, _)
MissedChatsByWeekAnyYear(collection, currentDate, missedChatsByWeek) ==
    IF collection = <<>> THEN missedChatsByWeek
    ELSE LET lead == Head(collection)
             weekIndexFromNow == getWeekNumber(currentDate) - getWeekNumber(lead.createdAt)
         IN MissedChatsByWeekAnyYear(Tail(collection), currentDate,
                IF /\ ~lead.deleted /\ lead.isMissedChat
                   /\ weekIndexFromNow >= 0 /\ weekIndexFromNow < GraphWeeks
                THEN [missedChatsByWeek EXCEPT ![GraphWeeks - weekIndexFromNow] = @ + 1]
                ELSE missedChatsByWeek)

\* missedChatLeads.forEach(...): missedChatsByWeek[9 - weekIndexFromNow] += 1 for a flagged
\* lead of the current year whose week is 0..9 weeks back (the sequence is 1-based here).
RECURSIVE MissedChatsByWeek(_, _, _)
MissedChatsByWeek(collection, currentDate, missedChatsByWeek) ==
    IF collection = <<>> THEN missedChatsByWeek
    ELSE LET lead == Head(collection)
             weekIndexFromNow == getWeekNumber(currentDate) - getWeekNumber(lead.createdAt)
         IN MissedChatsByWeek(Tail(collection), currentDate,
                IF /\ ~lead.deleted /\ lead.isMissedChat
                   /\ GetFullYear(lead.createdAt) = GetFullYear(currentDate)
                   /\ weekIndexFromNow >= 0 /\ weekIndexFromNow < GraphWeeks
                THEN [missedChatsByWeek EXCEPT ![GraphWeeks - weekIndexFromNow] = @ + 1]
                ELSE missedChatsByWeek)

\* getLeadsAnalytics: const totalLeads = await Lead.find(), and the average and the
\* weekly graph computed from it.
getLeadsAnalytics_find(p) ==
    /\ pc[p] = "an_find"
    /\ Goto(p, "an_reply",
            [loc[p] EXCEPT !.averateResponseTime = AverageResponseTime(leads),
                           !.leadGraph = MissedChatsByWeek(leads, DateOf(now),
                                                           [i \in 1..GraphWeeks |-> 0])])
    /\ UNCHANGED <<users, nextUserId, leads, convs, settings, now, cookies>>

\* getLeadsAnalytics: res.status(SUCCESS).json(finalList)
getLeadsAnalytics_reply(p) ==
    /\ pc[p] = "an_reply"
    /\ Finish(p)
    /\ UNCHANGED <<users, nextUserId, leads, convs, settings, now, cookies>>

(* --------------------------- controller/chat.js ------------------------ *)
\* const { hour = 0, minute = 0, second = 0 } = missedChatTimer; converted to milliseconds.
MissedTimerMs(timer) == ((timer.hour * 60 * 60) + (timer.minute * 60) + timer.second) * SecondMs

\* getReqUser: await User.findById({ _id: id }); the caller goes on with null when absent.
getReqUser(uid) == FindUserById(uid)

\* getReqUser: if (!foundUser) next(new CustomError(...LOGOUT_REQESTED...)) with no
\* return of its own: the calls of next made before foundUser is handed back.
getReqUser_next(foundUser) == IF foundUser = 0 THEN 1 ELSE 0

\* putMessage: const foundUser = await getReqUser(req, res, next)
putMessage_getReqUser(p, uid, leadID, message) ==
    /\ pc[p] = "idle"
    /\ uid \in Tokens
    /\ Len(convs) + InFlight(ConvCreateLabels) < MaxConvs
    /\ Goto(p, "msg_lead", [Idle EXCEPT !.leadID = leadID,
                                        !.message = message,
                                        !.foundUser = getReqUser(uid),
                                        !.completions = getReqUser_next(getReqUser(uid))])
    /\ UNCHANGED <<users, nextUserId, leads, convs, settings, now, cookies>>

\* putMessage: foundLead.responseTime as assigned before the save; -1 when the
\* document's path is left unmodified (no assignment, or the value it already has).
StampResponseTime(lead, responseTimeInMs) ==
    IF lead.responseTime = 0 /\ Floor(responseTimeInMs, SecondMs) # lead.responseTime
    THEN Floor(responseTimeInMs, SecondMs)
    ELSE -1

\* The error an assignee-gated handler (putStatusUpdate, putMessage) ends with after
\* Lead.findById; "" when the checks pass.  With foundUser null getReqUser has already
\* called next(LOGOUT_REQESTED), and that response is the one sent.
AssigneeOnly_error(foundUser, leadID) ==
    IF foundUser = 0 THEN "LOGOUT_REQESTED"
    ELSE IF ~LeadStored(leadID) THEN "NOT_FOUND"
    ELSE IF leads[leadID].currentAssignee # foundUser THEN "UNAUTHORIZED"
    ELSE ""

\* Mutant of putMessage_error: the comparison with currentAssignee is left out.
putMessage_errorAnyUser(foundUser, leadID) ==
    IF foundUser = 0 THEN "LOGOUT_REQESTED"
    ELSE IF ~LeadStored(leadID) THEN "NOT_FOUND"
    ELSE ""

putMessage_error(foundUser, leadID) == AssigneeOnly_error(foundUser, leadID)

\* putMessage: await Lead.findById(leadID), the assignee check, now and the stamp.
putMessage_findLead(p) ==
    /\ pc[p] = "msg_lead"
    /\ IF putMessage_error(loc[p].foundUser, loc[p].leadID) # ""
       THEN Fail(p, loc[p], putMessage_error(loc[p].foundUser, loc[p].leadID))
       ELSE LET foundLead == leads[loc[p].leadID]
                responseTimeInMs == now - GetTime(foundLead.createdAt)
            IN Goto(p, "msg_settings",
                    [loc[p] EXCEPT !.responseTimeInMs = responseTimeInMs,
                                   !.modResponseTime =
                                       StampResponseTime(foundLead, responseTimeInMs)])
    /\ UNCHANGED <<users, nextUserId, leads, convs, settings, now, cookies>>

\* Mutant of IsMissed: >= in place of > in the comparison with the threshold.
IsMissedAtThreshold(missedTimerMs, responseTimeInMs) ==
    missedTimerMs > 0 /\ responseTimeInMs >= missedTimerMs

\* putMessage: if (missedTimerMs > 0 && responseTimeInMs > missedTimerMs)
IsMissed(missedTimerMs, responseTimeInMs) ==
    missedTimerMs > 0 /\ responseTimeInMs > missedTimerMs

\* putMessage: await ChatbotSettings.findOne() and the missed-chat test.
putMessage_findSettings(p) ==
    /\ pc[p] = "msg_settings"
    /\ IF Len(settings) = 0
       THEN Fail(p, loc[p], "NOT_FOUND")
       ELSE Goto(p, "msg_save",
                 [loc[p] EXCEPT !.modIsMissedChat =
                     IsMissed(MissedTimerMs(settings[1].missedChatTimer),
                              loc[p].responseTimeInMs)])
    /\ UNCHANGED <<users, nextUserId, leads, convs, settings, now, cookies>>

\* Mutant of SaveLead: isMissedChat is written back with the value the handler computed,
\* set or not.
SaveLeadFlagAssigned(lead, l) ==
    [lead EXCEPT !.responseTime = IF l.modResponseTime # -1 THEN l.modResponseTime ELSE @,
                 !.isMissedChat = l.modIsMissedChat,
                 !.status = IF l.modStatus # "" THEN l.modStatus ELSE @]

\* foundLead.save(): $set of the modified paths on the stored document.
SaveLead(lead, l) ==
    [lead EXCEPT !.responseTime = IF l.modResponseTime # -1 THEN l.modResponseTime ELSE @,
                 !.isMissedChat = IF l.modIsMissedChat THEN TRUE ELSE @,
                 !.status = IF l.modStatus # "" THEN l.modStatus ELSE @]

\* putMessage: await foundLead.save()
putMessage_save(p) ==
    /\ pc[p] = "msg_save"
    /\ IF LeadStored(loc[p].leadID)
       THEN /\ leads' = [leads EXCEPT ![loc[p].leadID] = SaveLead(@, loc[p])]
            /\ Goto(p, "msg_conv", loc[p])
       ELSE /\ UNCHANGED leads
            /\ Fail(p, loc[p], "DocumentNotFoundError")
    /\ UNCHANGED <<users, nextUserId, convs, settings, now, cookies>>

\* putMessage: await newConversation.save()
putMessage_saveConversation(p) ==
    /\ pc[p] = "msg_conv"
    /\ convs' = Append(convs, NewConversation(loc[p].leadID, loc[p].message, "Member",
                                              loc[p].foundUser))
    /\ Finish(p)
    /\ UNCHANGED <<users, nextUserId, leads, settings, now, cookies>>

\* putMessage is interrupted (the process dies, the request is aborted) after
\* foundLead.save() and before newConversation.save(): the turn is never appended.
putMessage_interrupted(p) ==
    /\ pc[p] = "msg_conv"
    /\ ~loc[p].retry
    /\ Goto(p, "aborted", loc[p])
    /\ UNCHANGED <<users, nextUserId, leads, convs, settings, now, cookies>>

\* The client sends the interrupted request again: putMessage runs from its start with
\* the same credential, leadID and message.
putMessage_retry(p) ==
    /\ pc[p] = "aborted"
    /\ Goto(p, "msg_lead", [Idle EXCEPT !.leadID = loc[p].leadID,
                                        !.message = loc[p].message,
                                        !.foundUser = getReqUser(loc[p].foundUser),
                                        !.retry = TRUE])
    /\ UNCHANGED <<users, nextUserId, leads, convs, settings, now, cookies>>

\* getLeadList: const foundUser = await getReqUser(req, res, next)
getLeadList_getReqUser(p, uid) ==
    /\ pc[p] = "idle"
    /\ uid \in Tokens
    /\ Goto(p, "list_settings",
            [Idle EXCEPT !.foundUser = getReqUser(uid),
                         !.completions = getReqUser_next(getReqUser(uid)),
                         !.role = IF getReqUser(uid) = 0 THEN ""
                                  ELSE UserById(uid).userRole])
    /\ UNCHANGED <<users, nextUserId, leads, convs, settings, now, cookies>>

\* foundMissedChats: await ChatbotSettings.findOne(); thresholdTime = Date.now() - missedTimerMs.
\* With no settings document it returns next(NOT_FOUND) to getLeadList, which goes on.
foundMissedChats_findSettings(p) ==
    /\ pc[p] = "list_settings"
    /\ IF Len(settings) = 0
       THEN Goto(p, "list_find", [loc[p] EXCEPT !.completions = @ + 1])
       ELSE IF MissedTimerMs(settings[1].missedChatTimer) <= 0
       THEN Goto(p, "list_find", loc[p])
       ELSE Goto(p, "list_sweep",
                 [loc[p] EXCEPT !.thresholdTime =
                     now - MissedTimerMs(settings[1].missedChatTimer)])
    /\ UNCHANGED <<users, nextUserId, leads, convs, settings, now, cookies>>

\* Mutant of SweepLead: the filter has no isMissedChat: false and the update inverts
\* the flag.
SweepLeadInvert(lead, thresholdTime) ==
    IF lead.responseTime = 0 /\ GetTime(lead.createdAt) < thresholdTime
    THEN [lead EXCEPT !.isMissedChat = ~@]
    ELSE lead

\* Mutant of SweepLead: the filter has no responseTime: 0.
SweepLeadAnyResponseTime(lead, thresholdTime) ==
    IF lead.isMissedChat = FALSE /\ GetTime(lead.createdAt) < thresholdTime
    THEN [lead EXCEPT !.isMissedChat = TRUE]
    ELSE lead

\* { responseTime: 0, isMissedChat: false, createdAt: { $lt: thresholdTime } } -> $set isMissedChat
SweepLead(lead, thresholdTime) ==
    IF /\ lead.responseTime = 0 /\ lead.isMissedChat = FALSE
       /\ GetTime(lead.createdAt) < thresholdTime
    THEN [lead EXCEPT !.isMissedChat = TRUE]
    ELSE lead

\* Lead.updateMany(filter, { $set: { isMissedChat: true } }) over the collection.
updateManyMissed(collection, thresholdTime) ==
    [i \in 1..Len(collection) |->
        IF collection[i].deleted THEN collection[i]
        ELSE SweepLead(collection[i], thresholdTime)]

\* foundMissedChats: await Lead.updateMany(...); back in getLeadList the listing follows.
foundMissedChats_updateMany(p) ==
    /\ pc[p] = "list_sweep"
    /\ leads' = updateManyMissed(leads, loc[p].thresholdTime)
    /\ Goto(p, "list_find", [loc[p] EXCEPT !.thresholdTime = 0])
    /\ UNCHANGED <<users, nextUserId, convs, settings, now, cookies>>

\* Mutant of LeadListQuery: the query is {} for every user.
LeadListQueryAll(userRole, userID, lead) == TRUE

\* getLeadList: query = foundUser.userRole === 'Admin' ? {} : { assigneeList: foundUser._id }
LeadListQuery(userRole, userID, lead) ==
    \/ userRole = "Admin"
    \/ userID \in Range(lead.assigneeList)

\* Lead.find(query).sort({ createdAt: 1 }): the ids of the stored leads that match, in
\* the order of their creation.
FindLeads(userRole, userID) ==
    SelectSeq([l \in 1..Len(leads) |-> l],
              LAMBDA l : ~leads[l].deleted /\ LeadListQuery(userRole, userID, leads[l]))

\* .populate('currentAssignee') leaves null where the user no longer exists, and
\* lead?.currentAssignee._id then throws a TypeError.
PopulateFails(result) ==
    \E i \in 1..Len(result) : FindUserById(leads[result[i]].currentAssignee) = 0

\* getLeadList: foundUser.userRole (a TypeError when foundUser is null), then
\* await Lead.find(query).populate(...).sort({ createdAt: 1 })
getLeadList_find(p) ==
    /\ pc[p] = "list_find"
    /\ IF loc[p].foundUser = 0
       THEN Fail(p, loc[p], "TypeError")
       ELSE Goto(p, "list_reply", [loc[p] EXCEPT !.result = FindLeads(loc[p].role, loc[p].foundUser)])
    /\ UNCHANGED <<users, nextUserId, leads, convs, settings, now, cookies>>

\* getLeadList: await Promise.all(foundLeads.map(... LeadConversation.findOne ...)) and
\* res.status(SUCCESS).json(finalList); catch (error) { next(error) }
getLeadList_reply(p) ==
    /\ pc[p] = "list_reply"
    /\ IF PopulateFails(loc[p].result)
       THEN Fail(p, loc[p], "TypeError")
       ELSE Finish(p)
    /\ UNCHANGED <<users, nextUserId, leads, convs, settings, now, cookies>>

\* putStatusUpdate: const foundUser = await getReqUser(req, res, next)
putStatusUpdate_getReqUser(p, uid, leadID, status) ==
    /\ pc[p] = "idle"
    /\ uid \in Tokens
    /\ Goto(p, "status_lead", [Idle EXCEPT !.leadID = leadID,
                                           !.status = status,
                                           !.foundUser = getReqUser(uid),
                                           !.completions = getReqUser_next(getReqUser(uid))])
    /\ UNCHANGED <<users, nextUserId, leads, convs, settings, now, cookies>>

\* Mutant of putStatusUpdate_error: the comparison with currentAssignee is left out.
putStatusUpdate_errorAnyUser(foundUser, leadID) ==
    IF foundUser = 0 THEN "LOGOUT_REQESTED"
    ELSE IF ~LeadStored(leadID) THEN "NOT_FOUND"
    ELSE ""

putStatusUpdate_error(foundUser, leadID) == AssigneeOnly_error(foundUser, leadID)

\* putStatusUpdate: await Lead.findById(leadID), the assignee check, foundLead.status = status
\* (the path is modified only when the value differs).
putStatusUpdate_findLead(p) ==
    /\ pc[p] = "status_lead"
    /\ IF putStatusUpdate_error(loc[p].foundUser, loc[p].leadID) # ""
       THEN Fail(p, loc[p], putStatusUpdate_error(loc[p].foundUser, loc[p].leadID))
       ELSE Goto(p, "status_save",
                 [loc[p] EXCEPT !.modStatus =
                     IF leads[loc[p].leadID].status = loc[p].status THEN "" ELSE loc[p].status])
    /\ UNCHANGED <<users, nextUserId, leads, convs, settings, now, cookies>>

\* putStatusUpdate: await foundLead.save()
putStatusUpdate_save(p) ==
    /\ pc[p] = "status_save"
    /\ IF LeadStored(loc[p].leadID)
       THEN /\ leads' = [leads EXCEPT ![loc[p].leadID] = SaveLead(@, loc[p])]
            /\ Finish(p)
       ELSE /\ UNCHANGED leads
            /\ Fail(p, loc[p], "DocumentNotFoundError")
    /\ UNCHANGED <<users, nextUserId, convs, settings, now, cookies>>

\* The ObjectId object held in the _id of a document returned by one query.
ObjectIdOf(query, id) == [instance |-> query, value |-> id]

\* a !== b on two ObjectId objects compares the object references.
StrictNotEqual(a, b) == a.instance # b.instance

\* putLeadAssignee: const foundUser = await getReqUser(req, res, next)
putLeadAssignee_getReqUser(p, uid, leadID, assigneeID) ==
    /\ pc[p] = "idle"
    /\ uid \in Tokens
    /\ Goto(p, "assign_admin", [Idle EXCEPT !.leadID = leadID,
                                            !.memberID = assigneeID,
                                            !.foundUser = getReqUser(uid),
                                            !.completions = getReqUser_next(getReqUser(uid))])
    /\ UNCHANGED <<users, nextUserId, leads, convs, settings, now, cookies>>

\* Mutant of OnlyAdminRejects: the two ids are compared by value.
OnlyAdminRejectsByValue(foundUser, foundAdmin) ==
    \/ foundAdmin = 0
    \/ foundUser = 0
    \/ foundUser # foundAdmin

\* putLeadAssignee: if (!foundAdmin || foundUser._id !== foundAdmin._id) return next(...)
OnlyAdminRejects(foundUser, foundAdmin) ==
    \/ foundAdmin = 0
    \/ foundUser = 0
    \/ StrictNotEqual(ObjectIdOf("foundUser", foundUser), ObjectIdOf("foundAdmin", foundAdmin))

\* putLeadAssignee: currentAssignee = foundAssignee._id; assigneeList.unshift(foundAssignee._id)
AssignLead(lead, assigneeID) ==
    [lead EXCEPT !.currentAssignee = assigneeID,
                 !.assigneeList = <<assigneeID>> \o @]

\* Mutant of putLeadAssignee_error: the requester is the Admin when the two ids are equal.
putLeadAssignee_errorEqualIds(foundUser, foundAdmin, leadID, assigneeID) ==
    IF foundAdmin # 0 /\ foundUser = 0 THEN "TypeError"
    ELSE IF foundAdmin = 0 \/ foundUser # foundAdmin THEN "UNAUTHORIZED"
    ELSE IF ~LeadStored(leadID) \/ FindUserById(assigneeID) = 0 THEN "NOT_FOUND"
    ELSE ""

\* The error putLeadAssignee ends with; "" when its checks pass.  !foundAdmin is tested
\* first; with an Admin found and foundUser null, foundUser._id throws a TypeError that
\* the catch hands to next.
putLeadAssignee_error(foundUser, foundAdmin, leadID, assigneeID) ==
    IF foundAdmin # 0 /\ foundUser = 0 THEN "TypeError"
    ELSE IF OnlyAdminRejects(foundUser, foundAdmin) THEN "UNAUTHORIZED"
    ELSE IF ~LeadStored(leadID) \/ FindUserById(assigneeID) = 0 THEN "NOT_FOUND"
    ELSE ""

\* putLeadAssignee: await User.findOne({ userRole: 'Admin' }) and the admin check; past
\* the check, Lead.findById, User.findById and foundLead.save().
putLeadAssignee_findAdmin(p) ==
    /\ pc[p] = "assign_admin"
    /\ LET error == putLeadAssignee_error(loc[p].foundUser, FindAdmin,
                                          loc[p].leadID, loc[p].memberID)
       IN IF error # ""
          THEN /\ UNCHANGED leads
               /\ Fail(p, loc[p], error)
          ELSE /\ leads' = [leads EXCEPT ![loc[p].leadID] = AssignLead(@, loc[p].memberID)]
               /\ Finish(p)
    /\ UNCHANGED <<users, nextUserId, convs, settings, now, cookies>>

(* ------------------------- controller/settings.js ---------------------- *)
\* getBotSettings: const data = await ChatbotSettings.find(); with no document the
\* handler goes on to loadDefaultSettings(), otherwise it answers with data[0].
getBotSettings_find(p) ==
    /\ pc[p] = "idle"
    /\ IF Len(settings) = 0
       THEN Goto(p, "bot_default", Idle)
       ELSE Finish(p)
    /\ UNCHANGED <<users, nextUserId, leads, convs, settings, now, cookies>>

\* getBotSettings: the foundSettings object built from data[0] and sent as the answer.
foundSettings(data) ==
    [headerColor |-> data[1].headerColor,
     backgroundColor |-> data[1].backgroundColor,
     customizedMessages |-> data[1].customizedMessages,
     formPlaceholder |-> [name |-> data[1].formPlaceholder.name,
                          email |-> data[1].formPlaceholder.email,
                          phone |-> data[1].formPlaceholder.phone,
                          submitButton |-> data[1].formPlaceholder.submitButton],
     welcomeMessage |-> data[1].welcomeMessage,
     missedChatTimer |-> [hour |-> data[1].missedChatTimer.hour,
                          minute |-> data[1].missedChatTimer.minute,
                          second |-> data[1].missedChatTimer.second]]

\* A property a request body does not have.
Undefined == "undefined"

\* a ?? b
Nullish(a, b) == IF a = Undefined THEN b ELSE a

\* putChatBotSettings: the update document handed to findOneAndUpdate.  The welcome
\* message is read from formPlaceholder.welcomeMessage, a property the form placeholder
\* of a request does not have.
UpdateDocument(body) ==
    [headerColor |-> body.headerColor,
     backgroundColor |-> body.backgroundColor,
     customizedMessages |-> body.customizedMessages,
     formPlaceholder |-> [name |-> Nullish(body.formPlaceholder.name, "Your name"),
                          email |-> Nullish(body.formPlaceholder.email, "+1 (000) 000-0000"),
                          phone |-> Nullish(body.formPlaceholder.phone, "example@gmail.com"),
                          submitButton |-> Nullish(body.formPlaceholder.submitButton,
                                                   "Thank You!")],
     welcomeMessage |-> Nullish(Undefined,
         "Want to chat about Hubly? I'm a chatbot here to help you find your way."),
     missedChatTimer |-> [hour |-> body.missedChatTimer.hour,
                          minute |-> body.missedChatTimer.minute,
                          second |-> body.missedChatTimer.second]]

\* putChatBotSettings: await ChatbotSettings.findOneAndUpdate({}, {...}, { upsert: false })
\* updates the first document; when there is none the handler goes on to
\* loadDefaultSettings().
putChatBotSettings(p, body) ==
    /\ pc[p] = "idle"
    /\ Tokens # {}
    /\ IF Len(settings) = 0
       THEN /\ UNCHANGED settings
            /\ Goto(p, "bot_default", Idle)
       ELSE /\ settings' = [settings EXCEPT ![1] = UpdateDocument(body)]
            /\ UNCHANGED <<pc, loc>>
    /\ UNCHANGED <<users, nextUserId, leads, convs, now, cookies>>

\* loadDefaultSettings: await defaultSettings.save() inserts a new document; back in the
\* handler, return next('Something went wrong, Please retry!', EXPECTATION_FAILED).
loadDefaultSettings_save(p) ==
    /\ pc[p] = "bot_default"
    /\ settings' = Append(settings, loadDefaultSettings)
    /\ Fail(p, loc[p], "EXPECTATION_FAILED")
    /\ UNCHANGED <<users, nextUserId, leads, convs, now, cookies>>

\* connectDB on an empty database: countDocuments() is 0 and loadDefaultSettings() is
\* called; when its save() throws, the catch returns false, connectDB returns, and the
\* server starts with no settings document.
connectDB(saved) == IF saved THEN <<loadDefaultSettings>> ELSE <<>>

(* ------------------- controller/auth.js: putMemberDetail --------------- *)
\* putMemberDetail: the two field checks, then await User.findById(userID); with the
\* email changed the handler goes on to look for another user holding it.  Names are
\* given and left out; emails are given without blanks around them, so email.trim() is
\* the email.
putMemberDetail_findById(p, userID, email, phone, password, confirmPassword) ==
    /\ pc[p] = "idle"
    /\ Tokens # {}
    /\ LET foundMember == FindUserById(userID)
           locals == [Idle EXCEPT !.foundUser = foundMember, !.email = email,
                                  !.phone = phone, !.password = password]
       IN IF email = "" \/ phone = <<>> THEN Fail(p, locals, "CONFLICT")
          ELSE IF password # "" /\ password # confirmPassword THEN Fail(p, locals, "CONFLICT")
          ELSE IF foundMember = 0 THEN Fail(p, locals, "NOT_FOUND")
          ELSE LET doc == [id |-> userID, email |-> UserById(userID).email,
                           contact |-> UserById(userID).contact]
               IN IF doc.email # email
                  THEN Goto(p, "detail_email", [locals EXCEPT !.foundMember = doc])
                  ELSE Goto(p, "detail_save", [locals EXCEPT !.foundMember = doc])
    /\ UNCHANGED <<users, nextUserId, leads, convs, settings, now, cookies>>

\* putMemberDetail: await User.findOne({ email, _id: { $ne: foundMember._id } })
putMemberDetail_findOne(p) ==
    /\ pc[p] = "detail_email"
    /\ IF \E u \in users : u.email = loc[p].email /\ u.id # loc[p].foundUser
       THEN Fail(p, loc[p], "CONFLICT")
       ELSE Goto(p, "detail_save", loc[p])
    /\ UNCHANGED <<users, nextUserId, leads, convs, settings, now, cookies>>

\* putMemberDetail: if (foundMember.email !== email.trim() || foundMember.contact !==
\* phone.trim()), on the document as findById returned it.
DetailChanged(foundMember, email, phone) ==
    foundMember.email # email \/ foundMember.contact # Trim(phone)

\* putMemberDetail: the fields the handler assigns before foundMember.save(): email and
\* contact when one of them differs, and inside that branch the hashed password and a
\* null refresh_token when a password is given.
UpdateMember(user, foundMember, email, phone, password) ==
    IF DetailChanged(foundMember, email, phone)
    THEN IF password # ""
         THEN [user EXCEPT !.email = email, !.contact = Trim(phone),
                           !.password = bcryptHash(password), !.refresh_token = NoToken]
         ELSE [user EXCEPT !.email = email, !.contact = Trim(phone)]
    ELSE user

\* putMemberDetail: await bcrypt.hash(...) when it applies, then await
\* foundMember.save(): the modified paths are written to the stored document; a document
\* deleted meanwhile and an email taken meanwhile make save() throw.  The answer is 440
\* 'Profile updated successfully, Please login again' in the branch of changed details
\* and 200 'Profile updated successfully' otherwise.
putMemberDetail_save(p) ==
    /\ pc[p] = "detail_save"
    /\ IF loc[p].foundUser \notin UserIds
       THEN /\ UNCHANGED users
            /\ Fail(p, loc[p], "DocumentNotFoundError")
       ELSE IF /\ loc[p].foundMember.email # loc[p].email
               /\ \E u \in users : u.email = loc[p].email /\ u.id # loc[p].foundUser
       THEN /\ UNCHANGED users
            /\ Fail(p, loc[p], "E11000")
       ELSE /\ users' = {IF u.id = loc[p].foundUser
                         THEN UpdateMember(u, loc[p].foundMember, loc[p].email,
                                           loc[p].phone, loc[p].password)
                         ELSE u : u \in users}
            /\ Finish(p)
    /\ UNCHANGED <<nextUserId, leads, convs, settings, now, cookies>>

(* ---------------------------- specification ---------------------------- *)
\* Request inputs: ids of users and leads, existing or not.
UserInputs == 1..MaxUsers
LeadInputs == 1..MaxLeads
EngineLeadInputs == 1..EngineLeads
\* The ids of the engine's leads and one id of no lead.
FormLeadInputs == 1..(EngineLeads + 1)

Clock == \E d \in TickSteps : Tick(d)

Register ==
    \/ \E p \in Procs, e \in Emails : postRegister_findEmail(p, e)
    \/ \E p \in Procs : postRegister_findAdmin(p)
    \/ \E p \in Procs : postRegister_save(p)

AddMember ==
    \/ \E p \in Procs, e \in Emails, r \in Roles : postMember_findEmail(p, e, r)
    \/ \E p \in Procs : postMember_findAdmin(p)
    \/ \E p \in Procs : postMember_save(p)

DeleteMember ==
    \/ \E p \in Procs, u \in UserInputs, m \in UserInputs : deleteMember_findById(p, u, m)
    \/ \E p \in Procs : preDeleteOne_findAdmin(p)
    \/ \E p \in Procs : preDeleteOne_updateCurrent(p)
    \/ \E p \in Procs : preDeleteOne_updateList(p)
    \/ \E p \in Procs : preDeleteOne_updateConversation(p)
    \/ \E p \in Procs : deleteMember_deleteOne(p)

CreateLeadSteps ==
    \/ \E p \in Procs : getTicketID_findOne(p)
    \/ \E p \in Procs : postNewLead_save(p)
    \/ \E p \in Procs : postNewLead_saveConversation(p)

CreateLead ==
    \/ \E p \in Procs, m \in Messages : postNewLead_findAdmin(p, m)
    \/ CreateLeadSteps

\* Lead intake with and without a message.
CreateLeadAnyMessage ==
    \/ \E p \in Procs, m \in NewLeadMessages : postNewLead_findAdmin(p, m)
    \/ CreateLeadSteps

\* Lead intake while fewer than EngineLeads leads exist or are being created.
CreateEngineLead ==
    \/ /\ Len(leads) + InFlight(LeadCreateLabels) < EngineLeads
       /\ \E p \in Procs, m \in Messages : postNewLead_findAdmin(p, m)
    \/ CreateLeadSteps

\* Lead intake while fewer than SweepLeads leads exist or are being created.
CreateSweepLead ==
    \/ /\ Len(leads) + InFlight(LeadCreateLabels) < SweepLeads
       /\ \E p \in Procs, m \in Messages : postNewLead_findAdmin(p, m)
    \/ CreateLeadSteps

\* Lead intake with one createLead call at a time.
CreateLeadInTurn ==
    \/ /\ InFlight(LeadCreateLabels \cup {"lead_conv"}) = 0
       /\ \E p \in Procs, m \in Messages : postNewLead_findAdmin(p, m)
    \/ CreateLeadSteps

SubmitLeadForm(leadIDs, forms) ==
    \/ \E p \in Procs, l \in leadIDs, f \in forms : postLeadForm_findById(p, l, f)
    \/ \E p \in Procs : postLeadForm_save(p)

PostStaffMessage(leadIDs) ==
    \/ \E p \in Procs, u \in UserInputs, l \in leadIDs, m \in Messages :
          putMessage_getReqUser(p, u, l, m)
    \/ \E p \in Procs : putMessage_findLead(p)
    \/ \E p \in Procs : putMessage_findSettings(p)
    \/ \E p \in Procs : putMessage_save(p)
    \/ \E p \in Procs : putMessage_saveConversation(p)

InterruptStaffMessage ==
    \/ \E p \in Procs : putMessage_interrupted(p)
    \/ \E p \in Procs : putMessage_retry(p)

PostVisitorMessage(leadIDs) ==
    \/ \E p \in Procs, l \in leadIDs, m \in Messages : putLeadMessage_findById(p, l, m)
    \/ \E p \in Procs : putLeadMessage_saveConversation(p)

DeleteLead(leadIDs) ==
    \/ \E p \in Procs, l \in leadIDs : leadPreDeleteOne_deleteMany(p, l)
    \/ \E p \in Procs : lead_deleteOne(p)

SweepMissedChats ==
    \/ \E p \in Procs, u \in UserInputs : getLeadList_getReqUser(p, u)
    \/ \E p \in Procs : foundMissedChats_findSettings(p)
    \/ \E p \in Procs : foundMissedChats_updateMany(p)
    \/ \E p \in Procs : getLeadList_find(p)
    \/ \E p \in Procs : getLeadList_reply(p)

UpdateStatus(leadIDs) ==
    \/ \E p \in Procs, u \in UserInputs, l \in leadIDs, s \in Statuses :
          putStatusUpdate_getReqUser(p, u, l, s)
    \/ \E p \in Procs : putStatusUpdate_findLead(p)
    \/ \E p \in Procs : putStatusUpdate_save(p)

\* Status updates with one putStatusUpdate call past getReqUser at a time.
UpdateStatusInTurn(leadIDs) ==
    \/ /\ InFlight({"status_lead", "status_save"}) = 0
       /\ \E p \in Procs, u \in UserInputs, l \in leadIDs, s \in Statuses :
             putStatusUpdate_getReqUser(p, u, l, s)
    \/ \E p \in Procs : putStatusUpdate_findLead(p)
    \/ \E p \in Procs : putStatusUpdate_save(p)

Reassign(leadIDs) ==
    \/ \E p \in Procs, u \in UserInputs, l \in leadIDs, a \in UserInputs :
          putLeadAssignee_getReqUser(p, u, l, a)
    \/ \E p \in Procs : putLeadAssignee_findAdmin(p)

\* The body of an update that changes the missed-chat timer only.
TimerBody(t) ==
    [headerColor |-> "#33475B",
     backgroundColor |-> "#EEEEEE",
     customizedMessages |-> <<"How can i help you?", "Ask me anything!">>,
     formPlaceholder |-> [name |-> "Your name", phone |-> "+1 (000) 000-0000",
                          email |-> "example@gmail.com", submitButton |-> "Thank You!"],
     welcomeMessage |-> "Want to chat about Hubly? I'm a chatbot here to help you find your way.",
     missedChatTimer |-> t]

UpdateSettings == \E p \in Procs, t \in Timers : putChatBotSettings(p, TimerBody(t))

\* Request bodies of putChatBotSettings: two header colours, two welcome messages, the
\* form's email placeholder given or not, two timers.
Bodies ==
    {[TimerBody(t) EXCEPT !.headerColor = h, !.welcomeMessage = w,
                          !.formPlaceholder.email = e] :
        t \in Timers, h \in {"#33475B", "#000000"},
        w \in {"Want to chat about Hubly? I'm a chatbot here to help you find your way.",
               "Hello"},
        e \in {Undefined, "you@mail"}}

UpdateAllSettings == \E p \in Procs, body \in Bodies : putChatBotSettings(p, body)

ReadSettings == \E p \in Procs : getBotSettings_find(p)

SeedSettings == \E p \in Procs : loadDefaultSettings_save(p)

ComputeAnalytics ==
    \/ \E p \in Procs : getLeadsAnalytics_countDocuments(p)
    \/ \E p \in Procs : getLeadsAnalytics_countResolved(p)
    \/ \E p \in Procs : getLeadsAnalytics_find(p)
    \/ \E p \in Procs : getLeadsAnalytics_reply(p)

HandleError == \E p \in Procs : errorMiddleware(p)

\* The clock moving on to the end of an access token's lifetime, or of a refresh token's.
AuthInstants ==
    {k * AccessTime * SecondMs : k \in 1..MaxAuthTicks} \cup {RefreshTime * SecondMs}

TickAuth ==
    /\ \E t \in AuthInstants : t > now /\ now' = t
    /\ UNCHANGED <<users, nextUserId, leads, convs, settings, pc, loc, cookies>>

Login ==
    \/ \E p \in Procs, e \in Emails, v \in BOOLEAN : postLogin_findOne(p, e, v)
    \/ \E p \in Procs : postLogin_compare(p)
    \/ \E p \in Procs : postLogin_save(p)

Authenticate ==
    \/ \E p \in Procs, r \in Routes, jar \in CookieJars : isAuth(p, r, jar)
    \/ \E p \in Procs : handleTokenRefresh_findOne(p)

\* Passwords of a profile update: none, and a new one.
Passwords == {"", "New@1234"}

UpdateProfile ==
    \/ \E p \in Procs, u \in UserInputs, e \in Emails, ph \in Phones,
          pw \in Passwords, cpw \in Passwords :
          putMemberDetail_findById(p, u, e, ph, pw, cpw)
    \/ \E p \in Procs : putMemberDetail_findOne(p)
    \/ \E p \in Procs : putMemberDetail_save(p)

Logout ==
    \/ \E p \in Procs : getLogout_findOne(p)
    \/ \E p \in Procs : getLogout_save(p)

\* The ticket engine: staff replies, sweeps, status updates, form submission,
\* reassignment, member deletion and threshold changes, interleaved, with the clock
\* advancing past the one-second threshold in one step.
Next ==
    \/ Tick(MaxNow)
    \/ Register
    \/ DeleteMember
    \/ CreateEngineLead
    \/ SubmitLeadForm(EngineLeadInputs, {PlainForm})
    \/ PostStaffMessage(EngineLeadInputs)
    \/ SweepMissedChats
    \/ UpdateStatus(EngineLeadInputs)
    \/ Reassign(EngineLeadInputs)
    \/ UpdateSettings
    \/ HandleError

Spec == Init /\ [][Next]_vars

\* Staff replies and sweeps, with the clock advancing in half seconds.
NextReply ==
    \/ Clock
    \/ Register
    \/ CreateEngineLead
    \/ PostStaffMessage(EngineLeadInputs)
    \/ SweepMissedChats
    \/ UpdateSettings
    \/ HandleError

SpecReply == Init /\ [][NextReply]_vars

\* Staff replies and sweeps under the default threshold of one hour, with the clock
\* advancing in half hours.
NextSla ==
    \/ TickHalfHour
    \/ Register
    \/ CreateEngineLead
    \/ PostStaffMessage(EngineLeadInputs)
    \/ SweepMissedChats
    \/ HandleError

SpecSla == Init /\ [][NextSla]_vars

\* Status updates one after the other, interleaved with staff replies.
NextStatus ==
    \/ Register
    \/ CreateEngineLead
    \/ UpdateStatusInTurn(EngineLeadInputs)
    \/ PostStaffMessage(EngineLeadInputs)
    \/ HandleError

SpecStatus == Init /\ [][NextStatus]_vars

\* Sweeps over several leads, interleaved with lead intake, staff replies and threshold
\* changes, with the clock advancing in whole seconds.
NextSweep ==
    \/ Tick(SecondMs)
    \/ Register
    \/ CreateSweepLead
    \/ PostStaffMessage(EngineLeadInputs)
    \/ SweepMissedChats
    \/ UpdateSettings
    \/ HandleError

SpecSweep == Init /\ [][NextSweep]_vars

\* Staff replies that may be interrupted between their two writes and sent again, under
\* the default threshold of one hour, with the clock advancing in half hours.
NextRetry ==
    \/ TickHalfHour
    \/ Register
    \/ CreateEngineLead
    \/ PostStaffMessage(EngineLeadInputs)
    \/ InterruptStaffMessage
    \/ HandleError

SpecRetry == Init /\ [][NextRetry]_vars

\* Lead intake alone, across a change of date.
NextTickets ==
    \/ Midnight
    \/ Register
    \/ CreateLeadAnyMessage
    \/ HandleError

SpecTickets == Init /\ [][NextTickets]_vars

\* Lead intake with the createLead calls one after the other.
NextSeq ==
    \/ Midnight
    \/ Register
    \/ CreateLeadInTurn
    \/ HandleError

SpecSeq == Init /\ [][NextSeq]_vars

\* The sequence of the elements of a set of numbers, in increasing order.
RECURSIVE SeqOfSet(_)
SeqOfSet(S) == IF S = {} THEN <<>> ELSE <<Min(S)>> \o SeqOfSet(S \ {Min(S)})

\* A store for the ticket sequencer: the Admin, and leads of today holding any of the
\* codes base, base-01, ..., up to the suffix CodeLeads.
InitCodes ==
    /\ users = {[id |-> 1, email |-> "a@x", userRole |-> "Admin", parent |-> 0,
                 refresh_token |-> NoToken, contact |-> <<>>,
                 password |-> bcryptHash("User@1234")]}
    /\ nextUserId = 2
    /\ now = 0
    /\ \E taken \in SUBSET (0..CodeLeads) :
          leads = [i \in 1..Cardinality(taken) |->
                      NewLead(TicketOfDay(SeqOfSet(taken)[i] + 1), 1, DateOf(0))]
    /\ convs = <<>>
    /\ settings = <<loadDefaultSettings>>
    /\ pc = [p \in Procs |-> "idle"]
    /\ loc = [p \in Procs |-> Idle]
    /\ cookies = {}

\* One createLead call at a time on the drawn stores.
CreateLeadStored ==
    \/ /\ InFlight(LeadCreateLabels \cup {"lead_conv"}) = 0
       /\ Len(convs) = 0
       /\ \E p \in Procs, m \in NewLeadMessages : postNewLead_start(p, m, CodeLeads + 2)
    \/ CreateLeadSteps

NextCodes ==
    \/ CreateLeadStored
    \/ HandleError

SpecCodes == InitCodes /\ [][NextCodes]_vars

\* Lead intake with every awaited result delivered: the event loop resumes a request
\* whose await has settled, and the error middleware answers a request handed to it.
FairTickets ==
    /\ SpecTickets
    /\ \A p \in Procs :
          /\ WF_vars(getTicketID_findOne(p))
          /\ WF_vars(postNewLead_save(p))
          /\ WF_vars(postNewLead_saveConversation(p))
          /\ WF_vars(errorMiddleware(p))

\* Lead intake with the createLead calls one after the other, and deletion of leads.
NextReuse ==
    \/ Register
    \/ CreateLeadInTurn
    \/ DeleteLead(LeadInputs)
    \/ HandleError

SpecReuse == Init /\ [][NextReuse]_vars

\* Conversation turns: lead intake, staff replies, and deletion of leads and members.
NextTurns ==
    \/ Register
    \/ DeleteMember
    \/ CreateSweepLead
    \/ PostStaffMessage(LeadInputs)
    \/ PostVisitorMessage(LeadInputs)
    \/ DeleteLead(LeadInputs)
    \/ HandleError

SpecTurns == Init /\ [][NextTurns]_vars

\* Staff accounts alone.
NextUsers ==
    \/ Register
    \/ AddMember
    \/ DeleteMember
    \/ HandleError

SpecUsers == Init /\ [][NextUsers]_vars

\* Assignment: lead intake, reassignment, and creation and deletion of members.
NextAssign ==
    \/ Register
    \/ AddMember
    \/ DeleteMember
    \/ CreateLead
    \/ Reassign(LeadInputs)
    \/ HandleError

SpecAssign == Init /\ [][NextAssign]_vars

\* Requests of staff users who may have been deleted since their credential was issued,
\* under the default threshold of one hour, with the clock advancing past it in one step.
NextIdentity ==
    \/ TickPastHour
    \/ Register
    \/ DeleteMember
    \/ CreateEngineLead
    \/ PostStaffMessage(EngineLeadInputs)
    \/ SweepMissedChats
    \/ UpdateStatusInTurn(EngineLeadInputs)
    \/ Reassign(EngineLeadInputs)
    \/ HandleError

SpecIdentity == Init /\ [][NextIdentity]_vars

\* The Admin and one Member registered, nobody logged in.
InitAuth ==
    /\ users = {[id |-> 1, email |-> "a@x", userRole |-> "Admin", parent |-> 0,
                 refresh_token |-> NoToken, contact |-> <<>>,
                 password |-> bcryptHash("User@1234")],
                [id |-> 2, email |-> "b@x", userRole |-> "Member", parent |-> 1,
                 refresh_token |-> NoToken, contact |-> <<>>,
                 password |-> bcryptHash("User@1234")]}
    /\ nextUserId = 3
    /\ now = 0
    /\ leads = <<>>
    /\ convs = <<>>
    /\ settings = <<loadDefaultSettings>>
    /\ pc = [p \in Procs |-> "idle"]
    /\ loc = [p \in Procs |-> Idle]
    /\ cookies = {}

\* Credentials: login, logout and a protected read, while access and refresh tokens
\* expire.
NextAuth ==
    \/ TickAuth
    \/ Login
    \/ Authenticate
    \/ Logout
    \/ ComputeAnalytics
    \/ HandleError

SpecAuth == InitAuth /\ [][NextAuth]_vars

\* Profiles: logins and profile updates of the Admin and one Member.
NextProfile ==
    \/ Login
    \/ UpdateProfile
    \/ HandleError

SpecProfile == InitAuth /\ [][NextProfile]_vars

\* Form submissions, interleaved with staff replies and status updates, with the clock
\* advancing in one step.
NextForm ==
    \/ Tick(MaxNow)
    \/ Register
    \/ CreateEngineLead
    \/ SubmitLeadForm(FormLeadInputs, Forms)
    \/ PostStaffMessage(EngineLeadInputs)
    \/ UpdateStatusInTurn(EngineLeadInputs)
    \/ HandleError

SpecForm == Init /\ [][NextForm]_vars

\* Analytics while leads are created and resolved.
NextAnalytics ==
    \/ Register
    \/ CreateSweepLead
    \/ UpdateStatusInTurn(1..SweepLeads)
    \/ ComputeAnalytics
    \/ HandleError

SpecAnalytics == Init /\ [][NextAnalytics]_vars

\* A store for the average response time: the Admin, and up to AnalyticsLeads leads
\* whose responseTime is drawn from 0..MaxResponseTime seconds.
InitAverage ==
    /\ users = {[id |-> 1, email |-> "a@x", userRole |-> "Admin", parent |-> 0,
                 refresh_token |-> NoToken, contact |-> <<>>,
                 password |-> bcryptHash("User@1234")]}
    /\ nextUserId = 2
    /\ now = 0
    /\ \E n \in 0..AnalyticsLeads : \E times \in [1..n -> 0..MaxResponseTime] :
          leads = [k \in 1..n |->
                      [NewLead(TicketOfDay(k), 1, DateOf(0)) EXCEPT !.responseTime = times[k]]]
    /\ convs = <<>>
    /\ settings = <<loadDefaultSettings>>
    /\ pc = [p \in Procs |-> "idle"]
    /\ loc = [p \in Procs |-> Idle]
    /\ cookies = {}

\* The analytics applied to the drawn stores.
NextAverage == ComputeAnalytics

SpecAverage == InitAverage /\ [][NextAverage]_vars

\* Creation dates for the weekly graph, the server having booted on Tuesday 2025-09-30 in
\* week 40: that midnight, the midnight and the first millisecond of the Saturday before
\* (where week 39 ends), nine and ten weeks back, and the same day of 2024 (week 40 too).
CreatedDates ==
    {[day |-> 0, ms |-> 0], [day |-> -3, ms |-> 0], [day |-> -3, ms |-> 1],
     [day |-> -63, ms |-> 0], [day |-> -70, ms |-> 0], [day |-> -365, ms |-> 0]}

\* A store for the weekly graph: the Admin, and up to WeekLeads leads whose flag and
\* creation date are drawn.
InitWeeks ==
    /\ users = {[id |-> 1, email |-> "a@x", userRole |-> "Admin", parent |-> 0,
                 refresh_token |-> NoToken, contact |-> <<>>,
                 password |-> bcryptHash("User@1234")]}
    /\ nextUserId = 2
    /\ now \in {0, SecondMs}
    /\ \E n \in 0..WeekLeads : \E dates \in [1..n -> CreatedDates] : \E flags \in [1..n -> BOOLEAN] :
          leads = [k \in 1..n |->
                      [NewLead(TicketOfDay(k), 1, dates[k]) EXCEPT !.isMissedChat = flags[k]]]
    /\ convs = <<>>
    /\ settings = <<loadDefaultSettings>>
    /\ pc = [p \in Procs |-> "idle"]
    /\ loc = [p \in Procs |-> Idle]
    /\ cookies = {}

\* The analytics applied to the drawn stores.
NextWeeks == ComputeAnalytics

SpecWeeks == InitWeeks /\ [][NextWeeks]_vars

\* The first boot, with the default settings saved or not.
InitSettings ==
    /\ users = {}
    /\ nextUserId = 1
    /\ leads = <<>>
    /\ convs = <<>>
    /\ \E saved \in BOOLEAN : settings = connectDB(saved)
    /\ now = 0
    /\ pc = [p \in Procs |-> "idle"]
    /\ loc = [p \in Procs |-> Idle]
    /\ cookies = {}

\* Settings reads and updates after the first boot.
NextSettings ==
    \/ Register
    \/ ReadSettings
    \/ UpdateSettings
    \/ SeedSettings
    \/ HandleError

SpecSettings == InitSettings /\ [][NextSettings]_vars

\* The widget's configuration read and rewritten with every field of the request.
NextBot ==
    \/ Register
    \/ ReadSettings
    \/ UpdateAllSettings
    \/ SeedSettings
    \/ HandleError

SpecBot == InitSettings /\ [][NextBot]_vars

\* The assigneeLists drawn for the listing: sequences of user ids up to ListLen long.
AssigneeLists == UNION {[1..k -> UserInputs] : k \in 0..ListLen}

\* A store for the listing query: the Admin and one Member, and up to ListLeads leads
\* assigned to the Admin whose assigneeLists are drawn from AssigneeLists.
InitList ==
    /\ users = {[id |-> 1, email |-> "a@x", userRole |-> "Admin", parent |-> 0,
                 refresh_token |-> NoToken, contact |-> <<>>,
                 password |-> bcryptHash("User@1234")],
                [id |-> 2, email |-> "b@x", userRole |-> "Member", parent |-> 1,
                 refresh_token |-> NoToken, contact |-> <<>>,
                 password |-> bcryptHash("User@1234")]}
    /\ nextUserId = 3
    /\ now = 0
    /\ \E n \in 0..ListLeads : \E lists \in [1..n -> AssigneeLists] :
          leads = [k \in 1..n |->
                      [NewLead(TicketOfDay(k), 1, DateOf(0)) EXCEPT !.assigneeList = lists[k]]]
    /\ convs = <<>>
    /\ settings = <<loadDefaultSettings>>
    /\ pc = [p \in Procs |-> "idle"]
    /\ loc = [p \in Procs |-> Idle]
    /\ cookies = {}

\* The listing applied to the drawn stores.
NextList == SweepMissedChats

SpecList == InitList /\ [][NextList]_vars

(* -------------------------------- claims ------------------------------- *)
\* The leads and the turns stored.
LeadIds == {l \in 1..Len(leads) : ~leads[l].deleted}

ConvIds == {i \in 1..Len(convs) : ~convs[i].deleted}

\* A Conversation Turn with sendBy = Member exists for the lead.
HasStaffTurn(l) == \E i \in ConvIds : convs[i].leadID = l /\ convs[i].sendBy = "Member"

AdminIds == {u.id : u \in {v \in users : v.userRole = "Admin"}}

\* C1: under any interleaving of concurrent createLead calls, no two Leads hold the
\* same ticketID.
C1_TicketIDsDistinct ==
    \A i, j \in LeadIds : i # j => leads[i].ticketID # leads[j].ticketID

\* C2: with the createLead calls one at a time, the code getTicketID returns (the one
\* the handler is about to insert) is the ticketID of no stored Lead.
C2_ReturnedCodeUnused ==
    \A p \in Procs : pc[p] = "lead_save" => ~FindLeadByTicket(loc[p].ticketID)

\* C2 witness: the third lead of a day is about to be inserted with the suffix -02,
\* after the probes found the base code and -01 taken.
C2_ThirdLeadOfDay ==
    \E p \in Procs :
        /\ pc[p] = "lead_save"
        /\ loc[p].ticketID = SuffixedTicketID(loc[p].baseTicketID, 2)
        /\ FindLeadByTicket(loc[p].baseTicketID)
        /\ FindLeadByTicket(SuffixedTicketID(loc[p].baseTicketID, 1))

\* C3: once a Lead's responseTime is nonzero no step changes it.
C3_ResponseTimeSetOnce ==
    [][\A l \in LeadIds :
          leads[l].responseTime # 0 => leads'[l].responseTime = leads[l].responseTime]_vars

\* C4: in every state, a Lead's responseTime is 0 exactly when no Conversation Turn
\* with sendBy = Member exists for it.
C4_ZeroIffNoStaffTurn ==
    \A l \in LeadIds : (leads[l].responseTime = 0) <=> ~HasStaffTurn(l)

\* C5: no step takes a Lead's isMissedChat from true to false.
C5_MissedChatStaysSet ==
    [][\A l \in LeadIds : leads[l].isMissedChat => leads'[l].isMissedChat]_vars

\* C5 witness: a flagged lead that has a staff reply, a status update and a submitted
\* form, after a member was deleted and the threshold was set to zero.
C5_FlaggedAfterEverything ==
    \E l \in LeadIds :
        /\ leads[l].isMissedChat
        /\ HasStaffTurn(l)
        /\ leads[l].status = "Resolved"
        /\ leads[l].isDetailsShared
        /\ Tokens \ UserIds # {}
        /\ MissedTimerMs(settings[1].missedChatTimer) = 0

\* C6: a Lead whose first staff reply is logged and stamped while the Lead is not
\* flagged (the reply came within the threshold) is not flagged by any later step.
C6_RepliedInTimeNeverFlagged ==
    [][\A l \in LeadIds :
          (HasStaffTurn(l) /\ leads[l].responseTime # 0 /\ ~leads[l].isMissedChat)
              => ~leads'[l].isMissedChat]_vars

\* C7: when the requesting user is the Admin and the Lead and the new assignee exist,
\* the reassignment step sets currentAssignee and prepends the assignee to assigneeList.
C7_AdminReassignSucceeds ==
    [][\A p \in Procs :
          (/\ pc[p] = "assign_admin"
           /\ pc'[p] # "assign_admin"
           /\ loc[p].foundUser \in AdminIds
           /\ loc[p].foundUser = FindAdmin
           /\ loc[p].leadID \in LeadIds
           /\ loc[p].memberID \in UserIds)
          => /\ leads'[loc[p].leadID].currentAssignee = loc[p].memberID
             /\ leads'[loc[p].leadID].assigneeList =
                    <<loc[p].memberID>> \o leads[loc[p].leadID].assigneeList]_vars

\* C8: in every state, a Lead's non-null currentAssignee is an element of its
\* assigneeList.
C8_CurrentAssigneeInList ==
    \A l \in LeadIds :
        leads[l].currentAssignee # 0 =>
            leads[l].currentAssignee \in Range(leads[l].assigneeList)

\* C8 witness: a member deletion stands between its write of currentAssignee and its
\* write of assigneeList while a lead with an assignee exists.
C8_BetweenDeletionWrites ==
    /\ \E p \in Procs : pc[p] = "del_list"
    /\ \E l \in LeadIds : leads[l].currentAssignee # 0

\* C9: in every state at most one staff user has userRole = Admin.
C9_AtMostOneAdmin == Cardinality(AdminIds) <= 1

\* C11: a deleteMember request whose target is a user with userRole Admin is handed to
\* the error middleware with an authorization error and changes no user, lead or
\* conversation turn; no step ever removes an Admin from the users.
C11_AdminDeletionRejected ==
    [][/\ \A p \in Procs :
            (/\ pc[p] = "idle"
             /\ pc'[p] \in {"error", "del_admin"}
             /\ loc'[p].memberID \in AdminIds)
            => (/\ pc'[p] = "error"
                /\ loc'[p].error = "UNAUTHORIZED"
                /\ users' = users /\ leads' = leads /\ convs' = convs)
       /\ \A u \in users : u.userRole = "Admin" => u \in users']_vars

\* An Admin other than the requester's own account was the target of a refused
\* deleteMember while leads and turns are stored.
C11_AdminDeletionRefused ==
    \E p \in Procs :
        /\ pc[p] = "error"
        /\ loc[p].error = "UNAUTHORIZED"
        /\ loc[p].memberID \in AdminIds
        /\ UserById(loc[p].memberID).parent # 0
        /\ Len(leads) > 0
        /\ Len(convs) > 0

\* C12: a putStatusUpdate by an existing user who is not the lead's currentAssignee is
\* handed to the error middleware with an authorization error and leaves the lead as it
\* was; by the currentAssignee it reaches the save, after which the lead's status is the
\* requested value, whichever value it had.
C12_StatusAssigneeGated ==
    [][\A p \in Procs :
          /\ (/\ pc[p] = "status_lead" /\ pc'[p] # "status_lead"
              /\ loc[p].foundUser \in UserIds
              /\ loc[p].leadID \in LeadIds)
             => IF leads[loc[p].leadID].currentAssignee # loc[p].foundUser
                THEN /\ pc'[p] = "error"
                     /\ loc'[p].error = "UNAUTHORIZED"
                     /\ leads' = leads
                ELSE pc'[p] = "status_save"
          /\ (pc[p] = "status_save" /\ pc'[p] # "status_save")
             => leads'[loc[p].leadID].status = loc[p].status]_vars

\* A foreign status update has been refused, the lead has been resolved, and the
\* assignee's request to set it back to Unresolved stands before its save.
C12_ResolvedAndBack ==
    \E p, q \in Procs :
        /\ pc[p] = "error" /\ loc[p].error = "UNAUTHORIZED" /\ loc[p].status # ""
        /\ loc[p].foundUser \in UserIds
        /\ pc[q] = "status_save" /\ loc[q].status = "Unresolved"
        /\ leads[loc[q].leadID].status = "Resolved"

\* C13: a putMessage by an existing user who is not the lead's currentAssignee is handed
\* to the error middleware with an authorization error; the step, and the request's
\* remaining steps, append no turn and leave every lead as it was.
C13_MessageAssigneeGated ==
    [][\A p \in Procs :
          /\ (/\ pc[p] = "msg_lead" /\ pc'[p] # "msg_lead"
              /\ loc[p].foundUser \in UserIds
              /\ loc[p].leadID \in LeadIds
              /\ leads[loc[p].leadID].currentAssignee # loc[p].foundUser)
             => (/\ pc'[p] = "error" /\ loc'[p].error = "UNAUTHORIZED"
                 /\ leads' = leads /\ convs' = convs)
          /\ (pc[p] = "error" /\ pc'[p] # "error")
             => (pc'[p] = "idle" /\ leads' = leads /\ convs' = convs)]_vars

\* A Member's message to a stored lead assigned to the Admin has been refused.
C13_ForeignMessageRefused ==
    \E p \in Procs :
        /\ pc[p] = "error" /\ loc[p].error = "UNAUTHORIZED" /\ loc[p].message # ""
        /\ loc[p].foundUser \in UserIds
        /\ loc[p].leadID \in LeadIds
        /\ leads[loc[p].leadID].currentAssignee # loc[p].foundUser

\* C14: a sweep that reads a threshold of 0 ends without writing; one that reads a
\* threshold > 0 computes now - threshold, and its updateMany sets isMissedChat on
\* exactly the leads with responseTime 0, isMissedChat false and createdAt before that
\* time, changing no other lead, no other field, no turn, user or setting.
C14_SweepFlagsExactly ==
    [][\A p \in Procs :
          /\ (pc[p] = "list_settings" /\ pc'[p] # "list_settings")
             => /\ leads' = leads
                /\ IF MissedTimerMs(settings[1].missedChatTimer) > 0
                   THEN /\ pc'[p] = "list_sweep"
                        /\ loc'[p].thresholdTime =
                               now - MissedTimerMs(settings[1].missedChatTimer)
                   ELSE pc'[p] = "list_find"
          /\ (pc[p] = "list_sweep" /\ pc'[p] # "list_sweep")
             => /\ Len(leads') = Len(leads)
                /\ \A l \in LeadIds :
                      leads'[l] = IF /\ leads[l].responseTime = 0
                                     /\ ~leads[l].isMissedChat
                                     /\ GetTime(leads[l].createdAt) < loc[p].thresholdTime
                                  THEN [leads[l] EXCEPT !.isMissedChat = TRUE]
                                  ELSE leads[l]
                /\ convs' = convs /\ users' = users /\ settings' = settings]_vars

\* Of two unanswered leads the older one has been flagged by a sweep and the younger
\* one, created within the threshold, has not.
C14_OlderFlaggedYoungerNot ==
    \E l1, l2 \in LeadIds :
        /\ leads[l1].isMissedChat /\ leads[l1].responseTime = 0 /\ ~HasStaffTurn(l1)
        /\ ~leads[l2].isMissedChat /\ leads[l2].responseTime = 0
        /\ GetTime(leads[l2].createdAt) > GetTime(leads[l1].createdAt)
        /\ \A p \in Procs : pc[p] = "idle"

\* C15: the sweep is idempotent: the store a sweep's updateMany leaves is a fixed point
\* of the same updateMany at the same threshold time, so a second sweep run at the same
\* time flags the same leads and leaves the same store.
C15_SweepIdempotent ==
    [][\A p \in Procs :
          (pc[p] = "list_sweep" /\ pc'[p] # "list_sweep")
          => updateManyMissed(leads', loc[p].thresholdTime) = leads']_vars

\* A second sweep, with a threshold time that a lead already flagged by a sweep still
\* precedes, stands before its updateMany.
C15_SecondSweepPending ==
    \E p \in Procs, l \in LeadIds :
        /\ pc[p] = "list_sweep"
        /\ leads[l].isMissedChat /\ leads[l].responseTime = 0 /\ ~HasStaffTurn(l)
        /\ GetTime(leads[l].createdAt) < loc[p].thresholdTime

\* C16: when the currentAssignee's putMessage saves a lead that is still unanswered
\* (responseTime 0, no Member turn, not flagged) and the handler read the clock e whole
\* seconds after the lead's creation, 0 < e <= threshold, the saved lead has
\* responseTime = e and isMissedChat false.
C16_FirstReplyWithinThreshold ==
    [][\A p \in Procs :
          (/\ pc[p] = "msg_save" /\ pc'[p] # "msg_save"
           /\ leads[loc[p].leadID].responseTime = 0
           /\ ~HasStaffTurn(loc[p].leadID)
           /\ ~leads[loc[p].leadID].isMissedChat
           /\ loc[p].responseTimeInMs > 0
           /\ loc[p].responseTimeInMs % SecondMs = 0
           /\ loc[p].responseTimeInMs <= MissedTimerMs(settings[1].missedChatTimer))
          => (/\ leads'[loc[p].leadID].responseTime * SecondMs = loc[p].responseTimeInMs
              /\ ~leads'[loc[p].leadID].isMissedChat)]_vars

\* Under the threshold of one hour a lead answered 30 minutes after its creation holds
\* responseTime 1800 and is not flagged.
C16_RepliedAtThirtyMinutes ==
    \E l \in LeadIds :
        /\ leads[l].responseTime = 1800
        /\ ~leads[l].isMissedChat
        /\ HasStaffTurn(l)
        /\ MissedTimerMs(settings[1].missedChatTimer) = 2 * HalfHourMs

\* C17: when a putMessage that was interrupted between the lead's save and the turn's
\* append is sent again, and the first attempt stamped a response time, the second
\* attempt's save leaves the lead as the first attempt left it: the same responseTime,
\* isMissedChat not cleared, and no other difference.
C17_RetryLeavesLead ==
    [][\A p \in Procs :
          (/\ pc[p] = "msg_save" /\ pc'[p] # "msg_save"
           /\ loc[p].retry
           /\ leads[loc[p].leadID].responseTime # 0)
          => (/\ leads'[loc[p].leadID].responseTime = leads[loc[p].leadID].responseTime
              /\ (leads[loc[p].leadID].isMissedChat => leads'[loc[p].leadID].isMissedChat)
              /\ leads'[loc[p].leadID] = leads[loc[p].leadID])]_vars

\* C18: with the createLead calls one after the other, the code getTicketID has returned
\* is not the ticketID of any lead ever stored, whether the lead still exists or has
\* been deleted.
C18_CodeNeverReused ==
    \A p \in Procs :
        pc[p] = "lead_save"
        => \A i \in 1..Len(leads) : leads[i].ticketID # loc[p].ticketID

C20_CreateLeadAddsOneOfEach ==
    [][\A p \in Procs :
          /\ (pc[p] = "lead_save" /\ pc'[p] # "lead_save")
             => /\ Len(leads') = Len(leads) + 1
                /\ \A l \in 1..Len(leads) : leads'[l] = leads[l]
                /\ LET newLead == leads'[Len(leads')]
                   IN /\ newLead.currentAssignee = loc[p].foundAdmin
                      /\ loc[p].foundAdmin \in AdminIds
                      /\ newLead.assigneeList = <<loc[p].foundAdmin>>
                      /\ newLead.isFirstMessageShared /\ ~newLead.isDetailsShared
                      /\ newLead.status = "Unresolved"
                      /\ newLead.responseTime = 0 /\ ~newLead.isMissedChat
                      /\ ~newLead.deleted
                      /\ loc'[p].leadID = Len(leads')
                /\ convs' = convs
                /\ pc'[p] = "lead_conv"
          /\ (pc[p] = "lead_conv" /\ pc'[p] # "lead_conv")
             => /\ Len(convs') = Len(convs) + 1
                /\ \A i \in 1..Len(convs) : convs'[i] = convs[i]
                /\ LET turn == convs'[Len(convs')]
                   IN /\ turn.leadID = loc[p].leadID
                      /\ turn.sendBy = "Lead"
                      /\ turn.assigneeID = 0
                      /\ ~turn.deleted
                /\ leads' = leads
                /\ pc'[p] = "idle"]_vars

\* A second lead and its first turn have been added while the first lead and its turn
\* are stored, and no createLead is in flight.
C20_SecondLeadWithTurn ==
    /\ \A p \in Procs : pc[p] = "idle"
    /\ \E l \in LeadIds, i \in ConvIds :
          /\ l > 1 /\ i > 1
          /\ convs[i].leadID = l /\ convs[i].sendBy = "Lead"
          /\ leads[l].currentAssignee \in AdminIds
          /\ Cardinality({j \in ConvIds : convs[j].leadID = l}) = 1

\* C21: a createLead request without a message is handed to the error middleware as
\* a bad request, and one with a message while no Admin exists as "no Admin found"; the
\* step, and the rest of the request, add no lead and no turn, change none, and leave
\* the set of ticket codes in use as it was.
C21_CreateLeadRejected ==
    [][\A p \in Procs :
          /\ (/\ pc[p] = "idle" /\ pc'[p] \in {"error", "lead_probe"}
              /\ (loc'[p].message = "" \/ AdminIds = {}))
             => (/\ pc'[p] = "error"
                 /\ loc'[p].error = IF loc'[p].message = "" THEN "BAD_REQUEST"
                                                            ELSE "NO_ADMIN_FOUND"
                 /\ leads' = leads /\ convs' = convs
                 /\ {leads'[l].ticketID : l \in 1..Len(leads')}
                        = {leads[l].ticketID : l \in 1..Len(leads)})
          /\ (pc[p] = "error" /\ pc'[p] # "error")
             => (pc'[p] = "idle" /\ leads' = leads /\ convs' = convs)]_vars

\* A createLead without a message has been refused while a lead and its turn are
\* stored, and one sent before any Admin existed has been refused too.
C21_BothRefusals ==
    \E p, q \in Procs :
        /\ pc[p] = "error" /\ loc[p].error = "BAD_REQUEST" /\ loc[p].message = ""
        /\ pc[q] = "error" /\ loc[q].error = "NO_ADMIN_FOUND" /\ loc[q].message # ""
        /\ LeadIds # {} /\ ConvIds # {}
        /\ AdminIds # {}

\* C22: in every state there is at most one settings document.
C22_AtMostOneSettings == Len(settings) <= 1

\* C23: the leads getLeadList finds for an Admin are all the stored leads, and for a
\* Member exactly the stored leads whose assigneeList contains that Member, each once.
C23_ListByAssigneeList ==
    [][\A p \in Procs :
          (pc[p] = "list_find" /\ pc'[p] = "list_reply")
          => /\ Range(loc'[p].result) =
                   IF loc[p].role = "Admin"
                   THEN LeadIds
                   ELSE {l \in LeadIds : loc[p].foundUser \in Range(leads[l].assigneeList)}
             /\ Len(loc'[p].result) = Cardinality(Range(loc'[p].result))]_vars

\* A Member's listing holds one of two stored leads, the one whose assigneeList names
\* the Member, while the Admin's listing holds both.
C23_MemberSeesOwnOnly ==
    \E p, q \in Procs :
        /\ pc[p] = "list_reply" /\ loc[p].foundUser \notin AdminIds
        /\ Len(loc[p].result) = 1
        /\ loc[p].foundUser \in Range(leads[loc[p].result[1]].assigneeList)
        /\ pc[q] = "list_reply" /\ loc[q].foundUser \in AdminIds
        /\ Len(loc[q].result) = 2
        /\ \E l \in LeadIds : loc[p].foundUser \notin Range(leads[l].assigneeList)

\* C24: a putLeadMessage for a stored lead writes nothing in its lookup, and its save
\* appends exactly one turn, with that lead's id, the message, sendBy Lead and no
\* assigneeID, changing no stored turn and no lead.
C24_VisitorMessageAppendsTurn ==
    [][\A p \in Procs :
          /\ (pc[p] = "idle" /\ pc'[p] = "vmsg_conv")
             => (leads' = leads /\ convs' = convs /\ loc'[p].leadID \in LeadIds)
          /\ (pc[p] = "vmsg_conv" /\ pc'[p] # "vmsg_conv")
             => /\ pc'[p] = "idle"
                /\ leads' = leads
                /\ Len(convs') = Len(convs) + 1
                /\ \A i \in 1..Len(convs) : convs'[i] = convs[i]
                /\ convs'[Len(convs')] =
                       [leadID |-> loc[p].leadID, message |-> loc[p].message,
                        sendBy |-> "Lead", assigneeID |-> 0, deleted |-> FALSE]]_vars

\* A lead that has a staff reply holds a second visitor turn, appended after the reply.
C24_VisitorTurnAfterReply ==
    \E l \in LeadIds, i, j, k \in ConvIds :
        /\ i < j /\ j < k
        /\ convs[i].leadID = l /\ convs[i].sendBy = "Lead"
        /\ convs[j].leadID = l /\ convs[j].sendBy = "Member"
        /\ convs[k].leadID = l /\ convs[k].sendBy = "Lead"
        /\ \A p \in Procs : pc[p] = "idle"

\* C25: a postLeadForm with name, email and phone present writes nothing in its lookup;
\* for a stored lead it goes on to the save, which sets userName, userEmail and
\* userPhone to the trimmed values (no blank at either end) and isDetailsShared to true
\* and leaves status, responseTime, isMissedChat, currentAssignee, assigneeList and
\* ticketID, and every other lead and turn, as they were; for an id of no lead it is
\* handed to the error middleware as not found and nothing changes; and no step takes a
\* lead's isDetailsShared from true to false.
C25_FormSetsContactOnly ==
    [][/\ \A p \in Procs :
            /\ (/\ pc[p] = "idle" /\ pc'[p] \in {"form_save", "error"}
                /\ loc'[p].form # NoForm
                /\ ~postLeadForm_invalid(loc'[p].form))
               => /\ leads' = leads /\ convs' = convs
                  /\ IF loc'[p].leadID \in LeadIds
                     THEN pc'[p] = "form_save"
                     ELSE pc'[p] = "error" /\ loc'[p].error = "NOT_FOUND"
            /\ (pc[p] = "form_save" /\ pc'[p] # "form_save" /\ loc[p].leadID \in LeadIds)
               => LET old == leads[loc[p].leadID]
                      new == leads'[loc[p].leadID]
                  IN /\ pc'[p] = "idle"
                     /\ new.userName = Trim(loc[p].form.name)
                     /\ new.userEmail = Trim(loc[p].form.email)
                     /\ new.userPhone = Trim(loc[p].form.phone)
                     /\ \A str \in {new.userName, new.userEmail, new.userPhone} :
                           str # <<>> => (Head(str) # " " /\ str[Len(str)] # " ")
                     /\ new.isDetailsShared
                     /\ new.status = old.status
                     /\ new.responseTime = old.responseTime
                     /\ new.isMissedChat = old.isMissedChat
                     /\ new.currentAssignee = old.currentAssignee
                     /\ new.assigneeList = old.assigneeList
                     /\ new.ticketID = old.ticketID
                     /\ \A l \in LeadIds \ {loc[p].leadID} : leads'[l] = leads[l]
                     /\ convs' = convs
            /\ (pc[p] = "error" /\ pc'[p] # "error")
               => (pc'[p] = "idle" /\ leads' = leads /\ convs' = convs)
       /\ \A l \in LeadIds : leads[l].isDetailsShared => leads'[l].isDetailsShared]_vars

\* A resolved lead with a stamped response time holds the trimmed contact details of a
\* form sent with blanks around them, and a form for an id of no lead has been refused.
C25_TrimmedFormOnAnsweredLead ==
    \E l \in LeadIds, p \in Procs :
        /\ leads[l].userName = <<"A">> /\ leads[l].userPhone = <<"2">>
        /\ leads[l].isDetailsShared
        /\ leads[l].responseTime # 0 /\ leads[l].status = "Resolved"
        /\ pc[p] = "error" /\ loc[p].error = "NOT_FOUND" /\ loc[p].form # NoForm
        /\ loc[p].leadID \notin LeadIds

\* C26: the resolved percentage an analytics request returns is 0 when it counted no
\* lead, the rounded ratio of the counts otherwise, and always lies within 0..100.
C26_ResolvedPercentage ==
    \A p \in Procs :
        pc[p] \in {"an_find", "an_reply"}
        => /\ loc[p].totalLeadCount = 0 => loc[p].totalResolvedLeads = 0
           /\ loc[p].totalLeadCount > 0 =>
                  loc[p].totalResolvedLeads =
                      RoundDiv(100 * loc[p].resolvedLeadCount, loc[p].totalLeadCount)
           /\ loc[p].totalResolvedLeads \in 0..100

\* The sum of the response times of a set of leads.
RECURSIVE SumResponseTime(_)
SumResponseTime(S) ==
    IF S = {} THEN 0
    ELSE LET l == CHOOSE x \in S : TRUE
         IN leads[l].responseTime + SumResponseTime(S \ {l})

\* C27: the average response time an analytics request computes from the leads it
\* read is 0 when no lead has a nonzero responseTime, and otherwise the integer nearest
\* to (a half counting upwards) the sum of the nonzero responseTimes divided by the
\* number of leads that have one; leads with responseTime 0 are in neither.
C27_AverageOverAnswered ==
    [][\A p \in Procs :
          (pc[p] = "an_find" /\ pc'[p] # "an_find")
          => LET answered == {l \in LeadIds : leads[l].responseTime # 0}
                 sum == SumResponseTime(answered)
                 count == Cardinality(answered)
                 average == loc'[p].averateResponseTime
             IN /\ pc'[p] = "an_reply"
                /\ count = 0 => average = 0
                /\ count > 0 => /\ count * (2 * average - 1) <= 2 * sum
                                /\ 2 * sum < count * (2 * average + 1)]_vars

\* The average over leads with response times 0, 1 and 2 is 2 (1.5 rounded), not the 1
\* that counting the unanswered lead would give.
C27_HalfRoundedWithoutZero ==
    \E p \in Procs :
        /\ pc[p] = "an_reply"
        /\ loc[p].averateResponseTime = 2
        /\ {leads[l].responseTime : l \in LeadIds} = {0, 1, 2}
        /\ Cardinality(LeadIds) = 3

\* The sum of the entries of a graph.
RECURSIVE SumGraph(_)
SumGraph(graph) == IF graph = <<>> THEN 0 ELSE Head(graph) + SumGraph(Tail(graph))

\* C28: the weekly graph handed to the reply has exactly ten entries; entry 9 - k (counted
\* from 0) is the number of flagged leads created in the current calendar year whose
\* week number is k below the current one, for k in 0..9; every other lead is in no
\* entry, so the entries sum to at most the number of flagged leads.
C28_WeeklyGraphBins ==
    [][\A p \in Procs :
        (pc[p] = "an_find" /\ pc'[p] = "an_reply") =>
            LET graph == loc'[p].leadGraph
                currentDate == DateOf(now)
                Flagged == {l \in LeadIds : leads[l].isMissedChat}
                Binned(k) ==
                    {l \in Flagged :
                        /\ GetFullYear(leads[l].createdAt) = GetFullYear(currentDate)
                        /\ getWeekNumber(leads[l].createdAt) = getWeekNumber(currentDate) - k}
            IN /\ Len(graph) = 10
               /\ \A k \in 0..9 : graph[(9 - k) + 1] = Cardinality(Binned(k))
               /\ SumGraph(graph) <= Cardinality(Flagged)]_vars

\* A reply whose graph counts one lead in the current week and one nine weeks back, while
\* a third flagged lead, outside the ten weeks or the year, is in no entry.
C28_OneFlaggedLeadDropped ==
    \E p \in Procs :
        /\ pc[p] = "an_reply"
        /\ loc[p].leadGraph = [i \in 1..10 |-> IF i \in {1, 10} THEN 1 ELSE 0]
        /\ Cardinality({l \in LeadIds : leads[l].isMissedChat}) = 3

\* The positions of putStatusUpdate, putMessage, putLeadAssignee and getLeadList after
\* their call of getReqUser.
AfterGetReqUser ==
    {"status_lead", "msg_lead", "assign_admin", "list_settings", "list_sweep", "list_find"}

\* C29: when getReqUser found no user for the authenticated id, a status update, a staff
\* message, a reassignment and a lead listing each go on to an error and none of their
\* steps changes the stored users, leads, conversation turns or settings.
C29_IdentityFailsClosed ==
    [][\A p \in Procs :
        (pc[p] \in AfterGetReqUser /\ loc[p].foundUser = 0 /\ pc'[p] # pc[p])
        => /\ UNCHANGED <<users, leads, convs, settings, cookies>>
           /\ pc'[p] \in {"error", "list_sweep", "list_find"}]_vars

\* C30: a request whose access token has expired never reaches its route from isAuth
\* itself; from handleTokenRefresh it reaches the route only if some user stores the
\* refresh token it carries and that token verifies; and when no user stores it (the
\* user logged out, or logged in again and had it replaced) the request ends with status
\* 440 without a write and without reaching the route.
C30_RenewalNeedsStoredToken ==
    [][\A p \in Procs :
        /\ (/\ pc[p] = "idle" /\ pc'[p] = "route"
            /\ loc'[p].route \in Routes)
           => JwtVerify(loc'[p].access_token, "access") = ""
        /\ (pc[p] = "auth_refresh" /\ pc'[p] # "auth_refresh")
           => LET refreshToken == loc[p].refresh_token
                  stored == \E u \in users : u.refresh_token = refreshToken
              IN /\ pc'[p] \in {"route", "error"}
                 /\ pc'[p] = "route"
                    => /\ stored
                       /\ refreshToken.type = "refresh"
                       /\ now \div SecondMs < refreshToken.exp
                 /\ ~stored
                    => /\ pc'[p] = "error" /\ loc'[p].error = "440"
                       /\ UNCHANGED <<users, leads, convs, settings, cookies>>]_vars

\* Two requests rejected with 440, each carrying an expired access token and a refresh
\* token that was handed out at a login and has not expired: the user of the first has
\* logged out since, the user of the second has logged in again.
C30_OldRenewalRejectedTwice ==
    \E p, q \in Procs :
        /\ \A r \in {p, q} :
              /\ pc[r] = "error" /\ loc[r].error = "440"
              /\ JwtVerify(loc[r].access_token, "access") = "TokenExpiredError"
              /\ JwtVerify(loc[r].refresh_token, "refresh") = ""
              /\ \E jar \in cookies : jar.refresh_token = loc[r].refresh_token
              /\ loc[r].refresh_token.id \in UserIds
        /\ UserById(loc[p].refresh_token.id).refresh_token = NoToken
        /\ UserById(loc[q].refresh_token.id).refresh_token.iat > loc[q].refresh_token.iat

\* C31: every stored conversation turn belongs to a stored lead, and while the deletion
\* of a lead is between its two writes no turn of that lead is stored.
C31_TurnsHaveLead ==
    /\ \A i \in ConvIds : convs[i].leadID \in LeadIds
    /\ \A p \in Procs :
          pc[p] = "ldel_remove" => \A i \in ConvIds : convs[i].leadID # loc[p].leadID

\* C32: when getTicketID returns, the number of existence checks it has made (count) is
\* at most the number of stored leads plus one, and every createLead request that has
\* started comes to its end, with its lead and first turn saved or through the error
\* middleware.
C32_ProbeLoopTerminates ==
    /\ [](\A p \in Procs : pc[p] = "lead_save" => loc[p].count <= Cardinality(LeadIds) + 1)
    /\ \A p \in Procs :
          (pc[p] \in {"lead_probe", "lead_save", "lead_conv", "error"}) ~> (pc[p] = "idle")

\* getTicketID has returned after three existence checks with two leads stored.
C32_ThreeChecksTwoLeads ==
    \E p \in Procs :
        /\ pc[p] = "lead_save"
        /\ loc[p].count = 3
        /\ Cardinality(LeadIds) = 2

\* The ticket code with suffix n: two digits up to 99, its own digits above.
CodeWithSuffix(base, n) ==
    base \o "-" \o (IF n < 10 THEN "0" \o ToString(n) ELSE ToString(n))

\* C33: the code getTicketID returns is the base code YYYY-MMDD of the day when no stored
\* lead has it, and otherwise base-NN for the smallest n >= 1 whose code no stored lead
\* has, all codes with a smaller suffix being taken.
C33_SmallestFreeCode ==
    [][\A p \in Procs :
        (pc[p] = "lead_probe" /\ pc'[p] = "lead_save")
        => LET base == BaseTicketID(Today)
               code == loc'[p].ticketID
               Taken == {leads[l].ticketID : l \in LeadIds}
           IN IF base \notin Taken THEN code = base
              ELSE \E n \in 1..(Len(leads) + 1) :
                      /\ code = CodeWithSuffix(base, n)
                      /\ code \notin Taken
                      /\ \A m \in 1..(n - 1) : CodeWithSuffix(base, m) \in Taken]_vars

\* getTicketID has returned a code with the suffix 10 where base and base-01 to base-09
\* are taken and base-11 is taken too.
C33_TenthSuffix ==
    \E p \in Procs :
        /\ pc[p] = "lead_save"
        /\ loc[p].ticketID = CodeWithSuffix(BaseTicketID(Today), 10)
        /\ \E l \in LeadIds : leads[l].ticketID = CodeWithSuffix(BaseTicketID(Today), 11)

\* C34: a reassignment requested by a staff user who is not the Admin ends with the
\* authorization error and leaves every Lead as it was; one requested by the Admin for a
\* Lead or an assignee that does not exist ends with the not-found error and leaves
\* every Lead as it was.
C34_ReassignRejections ==
    [][\A p \in Procs :
          (/\ pc[p] = "assign_admin"
           /\ pc'[p] # "assign_admin"
           /\ FindAdmin # 0
           /\ loc[p].foundUser # 0)
          => /\ loc[p].foundUser # FindAdmin
                => /\ pc'[p] = "error"
                   /\ loc'[p].error = "UNAUTHORIZED"
                   /\ leads' = leads
             /\ (/\ loc[p].foundUser = FindAdmin
                 /\ \/ loc[p].leadID \notin LeadIds
                    \/ loc[p].memberID \notin UserIds)
                => /\ pc'[p] = "error"
                   /\ loc'[p].error = "NOT_FOUND"
                   /\ leads' = leads]_vars

\* C35: after a putChatBotSettings that succeeded with the values V (every field
\* given), the answer getBotSettings builds from the store is V, and the threshold that
\* postStaffMessage and sweepMissedChats compute from the store is the one of
\* V.missedChatTimer.
C35_SettingsRoundTrip ==
    [][\A p \in Procs, V \in Bodies :
          (/\ V.formPlaceholder.email # Undefined
           /\ Len(settings) > 0
           /\ putChatBotSettings(p, V))
          => /\ foundSettings(settings') = V
             /\ MissedTimerMs(settings'[1].missedChatTimer) = MissedTimerMs(V.missedChatTimer)]_vars

\* C36: a putMemberDetail that succeeds with a password given (equal to its
\* confirmation) on an existing user leaves the hash of that password stored and the
\* stored refresh_token cleared, whether or not the email or the phone changed.
C36_PasswordReplaced ==
    [][\A p \in Procs :
          (/\ pc[p] = "detail_save"
           /\ pc'[p] = "idle"
           /\ loc[p].password # "")
          => \E u \in users' :
                /\ u.id = loc[p].foundUser
                /\ u.password = bcryptHash(loc[p].password)
                /\ u.refresh_token = NoToken]_vars

\* The ids of the users that have been deleted.
DeletedUserIds == Tokens \ UserIds

\* C37: in every state every Lead's non-null currentAssignee is a stored user, and no
\* Lead's currentAssignee or assigneeList and no Conversation Turn's assigneeID is a
\* user whose deletion has completed.
C37_AssigneesExist ==
    /\ \A l \in LeadIds :
          /\ leads[l].currentAssignee # 0 => leads[l].currentAssignee \in UserIds
          /\ leads[l].currentAssignee \notin DeletedUserIds
          /\ Range(leads[l].assigneeList) \cap DeletedUserIds = {}
    /\ \A i \in ConvIds : convs[i].assigneeID \notin DeletedUserIds

\* C37 witness: a Member has been deleted while a Lead with an assignee and a staff
\* turn is stored.
C37_DeletedBesideStaffTurn ==
    /\ DeletedUserIds # {}
    /\ \E l \in LeadIds : leads[l].currentAssignee # 0
    /\ \E i \in ConvIds : convs[i].sendBy = "Member" /\ convs[i].assigneeID # 0

\* C38: under every interleaving of staff messages with reassignments and member
\* deletions, the step that appends a turn with sendBy Member appends it to a stored
\* Lead whose currentAssignee is, at that step, the turn's author.
C38_AuthorIsAssigneeAtAppend ==
    [][\A p \in Procs :
          (/\ pc[p] = "msg_conv"
           /\ Len(convs') = Len(convs) + 1
           /\ convs'[Len(convs')].sendBy = "Member")
          => LET turn == convs'[Len(convs')]
             IN /\ turn.leadID \in LeadIds
                /\ leads[turn.leadID].currentAssignee = turn.assigneeID
                /\ leads'[turn.leadID].currentAssignee = turn.assigneeID]_vars

\* C38 witness: a staff message that has passed the assignee check and saved the Lead
\* is about to append its turn while a member deletion is between its writes.
C38_AppendAmidDeletion ==
    \E p, q \in Procs :
        /\ pc[p] = "msg_conv"
        /\ pc[q] \in {"del_current", "del_list", "del_conv", "del_remove"}

\* C39: every request is completed exactly once: a request handed to the error
\* middleware has called next(error) once and nothing else, and a handler that sends its
\* answer has called next before on no path, also for a requester that no longer exists
\* and for a request without access token.
C39_CompletedOnce ==
    /\ [](\A p \in Procs : pc[p] = "error" => loc[p].completions = 1)
    /\ [][\A p \in Procs :
            (pc[p] \notin {"idle", "error"} /\ pc'[p] = "idle") => loc[p].completions = 0]_vars

====
